---------------------------- MODULE Spec2Model ----------------------------
(***************************************************************************)
(* QoreLogic governance core: the hash-chained SOA ledger written by the   *)
(* MCP server's tools, and the Trust Manager that persists the Trust       *)
(* Dynamics Engine's scores in agent_registry.                             *)
(*                                                                         *)
(* Conventions                                                             *)
(*   - SHA-256 is modelled as a collision-free function: the digest of     *)
(*     f"{timestamp}{did}{payload}{prev_hash}" is the tuple of its four    *)
(*     inputs, and the genesis constant "0"*64 is the empty tuple.         *)
(*   - A JSON payload is the sequence of its <<key, value>> pairs in the   *)
(*     order json.dumps writes them.                                       *)
(*   - time.time() is the variable clock, in days; str(time.time()) and    *)
(*     SQLite's datetime('now') are two different renderings of it.        *)
(*   - Trust scores are fixed-point: Unit stands for 1.0.                  *)
(***************************************************************************)
EXTENDS Integers, Sequences, FiniteSets, TLC

(***************************************************************************)
(* Bounds of the model                                                     *)
(***************************************************************************)
MaxLedger == 3
MaxTicks == 1
MaxQueue == 1
MaxTrustOps == 2
MaxSourceOps == 3
MaxPath == 4
MaxContent == 2
MaxWeightWrites == 2

Procs == {"p1", "p2"}

\* The two database files that hold a system_state table: DB_PATH of
\* server.py (line 28) and DB_PATH of advanced_features.py (line 21)
ServerDb == "qorelogic_soa_ledger.db"
EnforcerDb == "qdna_soa_ledger.db"
Databases == {ServerDb, EnforcerDb}

VARIABLES
    soa_ledger,         \* table soa_ledger, in entry_id order
    clock,              \* time.time()
    system_state,       \* per database file: system_state.current_mode of
                        \* row state_id = 1
    l3_approval_queue,  \* table l3_approval_queue, in queue_id order
    shadow_genome,      \* number of rows of table shadow_genome
    agent_registry,     \* table agent_registry: did -> row
    reputation_log,     \* table reputation_log
    agent_quarantine,   \* table agent_quarantine
    call,               \* per process: the server tool call in progress
    overlapped,         \* history: some log_event read the tail while another
                        \* log_event was between its read and its INSERT
    trust_updates,      \* table trust_updates, in insertion order
    tm_quarantine,      \* the agent_quarantine rows apply_violation_penalty writes
    source_credibility, \* table source_credibility, by source_id
    cred,               \* the CredibilityManager calls in progress and made
    sentinel,           \* the Sentinel run in progress: position, inputs, findings
    txn,                \* per process: the Trust Manager call in progress
    txn_hist,           \* history of the Trust Manager calls (see TxnHist0)
    fn                  \* argument and result of a pure engine function

\* the tables of the server's database other than the ledger
tables == <<system_state, l3_approval_queue, shadow_genome, agent_registry,
            reputation_log, agent_quarantine>>
\* what the ledger tools never touch
trustSide == <<trust_updates, tm_quarantine, txn, txn_hist, fn,
               source_credibility, cred, sentinel>>
\* what the Trust Manager never touches
serverSide == <<soa_ledger, system_state, l3_approval_queue, shadow_genome,
                reputation_log, call, overlapped, fn, source_credibility, cred,
                sentinel>>
vars == <<soa_ledger, clock, system_state, l3_approval_queue, shadow_genome,
          agent_registry, reputation_log, agent_quarantine, call, overlapped,
          trust_updates, tm_quarantine, txn, txn_hist, fn,
          source_credibility, cred, sentinel>>

(***************************************************************************)
(* Ledger primitives (server.py)                                           *)
(***************************************************************************)
GENESIS_HASH == <<>>

\* str(time.time()): the epoch rendering of the clock
StrTime(t) == <<"epoch", t>>

\* SQLite datetime('now'): the 'YYYY-MM-DD HH:MM:SS' rendering of the clock
SqlDatetimeNow(t) == <<"utc", t>>

Lower(role) ==
    CASE role = "Scrivener" -> "scrivener"
      [] role = "Sentinel"  -> "sentinel"
      [] role = "Judge"     -> "judge"
      [] role = "Overseer"  -> "overseer"
      [] OTHER              -> role

\* did = f"did:myth:{agent_role.lower()}:active"
RoleDid(role) == <<"did:myth", Lower(role), "active">>

compute_entry_hash(timestamp, did, payload, prev_hash) ==
    <<timestamp, did, payload, prev_hash>>

\* as get_previous_hash, with ORDER BY entry_id ASC
get_previous_hash_oldest(ledger) ==
    IF Len(ledger) = 0 THEN GENESIS_HASH ELSE ledger[1].entry_hash

\* SELECT entry_hash FROM soa_ledger ORDER BY entry_id DESC LIMIT 1
get_previous_hash(ledger) ==
    IF Len(ledger) = 0 THEN GENESIS_HASH ELSE ledger[Len(ledger)].entry_hash

\* signature = f"sig_{sha256(entry_hash)[:16]}"
Signature(entry_hash) == <<"sig", entry_hash>>

\* The row log_event INSERTs: the hash was computed over str(time.time()) read
\* before, the timestamp column is datetime('now') at the INSERT.
LedgerRow(ledger, ev, prev_hash, timestamp, now) ==
    [ entry_id   |-> Len(ledger) + 1,
      timestamp  |-> SqlDatetimeNow(now),
      agent_did  |-> RoleDid(ev.agent_role),
      event_type |-> ev.event_type,
      risk_grade |-> ev.risk_grade,
      payload    |-> ev.payload,
      entry_hash |-> compute_entry_hash(timestamp, RoleDid(ev.agent_role),
                                        ev.payload, prev_hash),
      prev_hash  |-> prev_hash,
      signature  |-> Signature(compute_entry_hash(timestamp,
                         RoleDid(ev.agent_role), ev.payload, prev_hash)) ]

\* as InsertLedgerRow, with INSERT OR REPLACE on the tail's entry_id
ReplaceLedgerTail(ledger, row) ==
    IF Len(ledger) = 0 THEN <<row>>
    ELSE [ledger EXCEPT ![Len(ledger)] = [row EXCEPT !.entry_id = Len(ledger)]]

\* INSERT INTO soa_ledger ... ; conn.commit()
InsertLedgerRow(ledger, row) == Append(ledger, row)

Event(role, type, grade, payload) ==
    [agent_role |-> role, event_type |-> type, risk_grade |-> grade,
     payload |-> payload]


(***************************************************************************)
(* Agent registry rows                                                     *)
(***************************************************************************)
Unit == 3 * 1000            \* fixed-point 1.0 (trust scores)
\* fixed-point 1.0 of influence weights: fine enough to hold s / total and
\* 1 / n exactly for up to three agents with scores in halves
WeightUnit == 12 * Unit

Dids == {"did:myth:scrivener:a1"}
UnknownDid == "did:myth:ghost"

(***************************************************************************)
(* A tool call in progress: the steps it still has to run (todo), and,     *)
(* inside log_event, the tail hash and the time it has read.               *)
(***************************************************************************)
IdleCall == [pc |-> "idle", todo |-> <<>>, prev_hash |-> GENESIS_HASH,
             timestamp |-> StrTime(0)]

LogStep(ev) == [kind |-> "log", ev |-> ev]
L3InsertStep(content, reason) ==
    [kind |-> "l3_insert", content |-> content, reason |-> reason]
ArchiveStep == [kind |-> "archive"]

RECURSIVE CountLogs(_)
CountLogs(todo) ==
    IF todo = <<>> THEN 0
    ELSE (IF Head(todo).kind = "archive" THEN 0 ELSE 1) + CountLogs(Tail(todo))

RECURSIVE SumOver(_, _)
SumOver(S, f) ==
    IF S = {} THEN 0
    ELSE LET x == CHOOSE y \in S : TRUE IN f[x] + SumOver(S \ {x}, f)

\* ledger rows already written plus those the calls in progress will write
LedgerDemand == Len(soa_ledger) + SumOver(Procs, [p \in Procs |-> CountLogs(call[p].todo)])

Room(n) == LedgerDemand + n <= MaxLedger

StartCall(p, steps) ==
    call' = [call EXCEPT ![p] = [IdleCall EXCEPT !.pc = "run", !.todo = steps]]

\* what is left of the call once its first step has run
Advance(c, rest) ==
    [IdleCall EXCEPT !.pc = IF rest = <<>> THEN "idle" ELSE "run", !.todo = rest]

(***************************************************************************)
(* log_event (server.py 306-341)                                           *)
(***************************************************************************)
\* lines 322-323: prev_hash = get_previous_hash(); timestamp = str(time.time())
LogEventRead(p) ==
    /\ call[p].pc = "run"
    /\ Head(call[p].todo).kind = "log"
    /\ call' = [call EXCEPT ![p].pc = "insert",
                            ![p].prev_hash = get_previous_hash(soa_ledger),
                            ![p].timestamp = StrTime(clock)]
    /\ overlapped' = (overlapped \/ \E q \in Procs \ {p} : call[q].pc = "insert")
    /\ UNCHANGED <<soa_ledger, clock, tables, trustSide>>

\* lines 326-341: hash, signature, INSERT, commit
LogEventInsert(p) ==
    /\ call[p].pc = "insert"
    /\ soa_ledger' = InsertLedgerRow(soa_ledger,
                        LedgerRow(soa_ledger, Head(call[p].todo).ev,
                                  call[p].prev_hash, call[p].timestamp, clock))
    /\ call' = [call EXCEPT ![p] = Advance(call[p], Tail(call[p].todo))]
    /\ UNCHANGED <<clock, tables, overlapped, trustSide>>

\* the log_event tool called directly
LogEvent(p, role, type, grade, payload) ==
    /\ call[p].pc = "idle"
    /\ Room(1)
    /\ StartCall(p, <<LogStep(Event(role, type, grade, payload))>>)
    /\ UNCHANGED <<soa_ledger, clock, tables, overlapped, trustSide>>


(***************************************************************************)
(* The other server tools that write the ledger (server.py)                *)
(***************************************************************************)
\* json.dumps of a number
Num(n) == <<"num", n>>

VALID_MODES == {"NORMAL", "LEAN", "SURGE", "SAFE"}

\* str.upper() on the mode names the model passes
Upper(mode) ==
    CASE mode = "lean" -> "LEAN"
      [] mode = "safe" -> "SAFE"
      [] OTHER         -> mode

\* set_operational_mode, lines 504-520
SetOperationalMode(p, mode, reason) ==
    /\ call[p].pc = "idle"
    /\ IF Upper(mode) \notin VALID_MODES
       THEN UNCHANGED <<system_state, call>>
       ELSE /\ Room(1)
            /\ system_state' = [system_state EXCEPT ![ServerDb] = Upper(mode)]
            /\ StartCall(p, <<LogStep(Event("Judge", "MODE_CHANGE", "L1",
                    << <<"new_mode", Upper(mode)>>, <<"reason", reason>> >>))>>)
    /\ UNCHANGED <<soa_ledger, clock, l3_approval_queue, shadow_genome,
                   agent_registry, reputation_log, agent_quarantine,
                   overlapped, trustSide>>

\* UPDATE l3_approval_queue SET status = ? ... WHERE queue_id = ?
DecideQueueRow(queue, queue_id, status) ==
    [i \in 1..Len(queue) |->
        IF queue[i].queue_id = queue_id
        THEN [queue[i] EXCEPT !.status = status,
                              !.overseer_did = "did:myth:overseer:human"]
        ELSE queue[i]]

\* approve_l3, lines 411-427
ApproveL3(p, queue_id, approved, notes) ==
    /\ call[p].pc = "idle"
    /\ Room(1)
    /\ l3_approval_queue' = DecideQueueRow(l3_approval_queue, queue_id,
                                IF approved THEN "APPROVED" ELSE "REJECTED")
    /\ StartCall(p, <<LogStep(Event("Overseer",
            IF approved THEN "L3_APPROVED" ELSE "L3_REJECTED", "L3",
            << <<"queue_id", Num(queue_id)>>, <<"notes", notes>> >>))>>)
    /\ UNCHANGED <<soa_ledger, clock, system_state, shadow_genome,
                   agent_registry, reputation_log, agent_quarantine,
                   overlapped, trustSide>>

Max(a, b) == IF a >= b THEN a ELSE b
Min(a, b) == IF a <= b THEN a ELSE b

\* new_weight = max(0, min(2.0, old_weight + amount))
ClampWeight(w) == Max(0, Min(2 * WeightUnit, w))

\* apply_penalty, lines 463-490
ApplyPenalty(p, agent_did, amount, reason) ==
    /\ call[p].pc = "idle"
    /\ IF agent_did \notin DOMAIN agent_registry
       THEN UNCHANGED <<agent_registry, reputation_log, call>>
       ELSE LET old_weight == agent_registry[agent_did].influence_weight
                new_weight == ClampWeight(old_weight + amount)
            IN  /\ Room(1)
                /\ agent_registry' = [agent_registry EXCEPT
                        ![agent_did].influence_weight = new_weight]
                /\ reputation_log' = Append(reputation_log,
                        [agent_did |-> agent_did, previous_weight |-> old_weight,
                         new_weight |-> new_weight, adjustment |-> amount])
                /\ StartCall(p, <<LogStep(Event("Judge", "PENALTY", "L2",
                        << <<"agent", agent_did>>, <<"old", Num(old_weight)>>,
                           <<"new", Num(new_weight)>>, <<"reason", reason>> >>))>>)
    /\ UNCHANGED <<soa_ledger, clock, system_state, l3_approval_queue,
                   shadow_genome, agent_quarantine, overlapped, trustSide>>


(***************************************************************************)
(* QuarantineManager.quarantine_agent (credibility_manager.py 337-387) and *)
(* the quarantine_agent tool (server.py 1136-1167).  The INSERT and the    *)
(* UPDATE of agent_registry are one commit; both are modelled on the       *)
(* tables of one database.                                                 *)
(***************************************************************************)
HONEST_ERROR_DURATION == 0
MANIPULATION_DURATION == 2          \* 48 * 60 * 60 seconds, in days

QuarantineDuration(track) ==
    IF track = "MANIPULATION" THEN MANIPULATION_DURATION
    ELSE HONEST_ERROR_DURATION

QuarantineRecord(table, agent_did, reason, track, now) ==
    [ quarantine_id |-> Len(table) + 1,
      agent_did     |-> agent_did,
      reason        |-> reason,
      track         |-> track,
      start_time    |-> now,
      end_time      |-> now + QuarantineDuration(track),
      status        |-> IF QuarantineDuration(track) > 0 THEN "ACTIVE"
                        ELSE "COMPLETED" ]

\* UPDATE agent_registry SET status = 'QUARANTINED' WHERE did = ?
SetAgentStatus(registry, agent_did, status) ==
    [d \in DOMAIN registry |->
        IF d = agent_did THEN [registry[d] EXCEPT !.status = status]
        ELSE registry[d]]

QuarantineAgent(p, agent_did, reason, track) ==
    /\ call[p].pc = "idle"
    /\ IF track \notin {"HONEST_ERROR", "MANIPULATION"}
       THEN UNCHANGED <<agent_quarantine, agent_registry, call>>
       ELSE /\ Room(1)
            /\ agent_quarantine' = Append(agent_quarantine,
                    QuarantineRecord(agent_quarantine, agent_did, reason, track, clock))
            /\ agent_registry' = SetAgentStatus(agent_registry, agent_did, "QUARANTINED")
            /\ StartCall(p, <<LogStep(Event("Judge", "QUARANTINE", "L3",
                    << <<"agent_did", agent_did>>, <<"reason", reason>>,
                       <<"track", track>>,
                       <<"duration_hours", Num(24 * QuarantineDuration(track))>> >>))>>)
    /\ UNCHANGED <<soa_ledger, clock, system_state, l3_approval_queue,
                   shadow_genome, reputation_log, overlapped, trustSide>>

(***************************************************************************)
(* audit_code (server.py 213-278).  The Sentinel's result is an input      *)
(* here; the traffic monitor either admits the request or raises the       *)
(* RuntimeError that audit_code turns into an ERROR response.              *)
(***************************************************************************)
\* result.to_json(), without the latency
ResultJson(result) ==
    << <<"verdict", result.verdict>>, <<"risk_grade", result.risk_grade>>,
       <<"requires_approval", result.requires_approval>> >>

VerdictEvent(result) ==
    IF result.verdict = "L3_REQUIRED" THEN "L3_APPROVAL_REQUEST"
    ELSE IF result.verdict = "PASS" THEN "AUDIT_PASS" ELSE "AUDIT_FAIL"

AuditSteps(file_path, content, result) ==
    <<LogStep(Event("Scrivener", "AUDIT_REQUEST", result.risk_grade,
            << <<"file", file_path>>, <<"content_length", Num(content.length)>> >>))>>
    \o (IF result.verdict = "L3_REQUIRED"
        THEN <<L3InsertStep(content, "L3 artifact requires Overseer approval before commit.")>>
        ELSE <<>>)
    \o <<LogStep(Event("Sentinel", VerdictEvent(result), result.risk_grade,
                       ResultJson(result)))>>
    \o (IF result.verdict = "FAIL" /\ result.has_failure_modes
        THEN <<ArchiveStep>> ELSE <<>>)

QueueDemand ==
    Len(l3_approval_queue)
    + Cardinality({p \in Procs :
        \E i \in 1..Len(call[p].todo) : call[p].todo[i].kind = "l3_insert"})

AuditCode(p, file_path, content, result, admitted) ==
    /\ call[p].pc = "idle"
    /\ IF ~admitted
       THEN UNCHANGED call
       ELSE /\ Room(CountLogs(AuditSteps(file_path, content, result)))
            /\ result.verdict = "L3_REQUIRED" => QueueDemand < MaxQueue
            /\ StartCall(p, AuditSteps(file_path, content, result))
    /\ UNCHANGED <<soa_ledger, clock, tables, overlapped, trustSide>>

\* request_l3_approval, lines 382-394: the INSERT, then its own log_event
RequestL3Insert(p) ==
    /\ call[p].pc = "run"
    /\ Head(call[p].todo).kind = "l3_insert"
    /\ LET step == Head(call[p].todo)
           artifact_hash == compute_entry_hash(StrTime(clock), "sentinel",
                                               step.content, GENESIS_HASH)
       IN  /\ l3_approval_queue' = Append(l3_approval_queue,
                    [ queue_id |-> Len(l3_approval_queue) + 1,
                      artifact_hash |-> artifact_hash,
                      requesting_agent |-> "did:myth:sentinel:active",
                      reason |-> step.reason,
                      status |-> "PENDING",
                      overseer_did |-> "" ])
           /\ call' = [call EXCEPT ![p].todo =
                    <<LogStep(Event("Sentinel", "L3_APPROVAL_REQUEST", "L3",
                        << <<"artifact_hash", artifact_hash>>,
                           <<"reason", step.reason>> >>))>>
                    \o Tail(call[p].todo)]
    /\ UNCHANGED <<soa_ledger, clock, system_state, shadow_genome, agent_registry,
                   reputation_log, agent_quarantine, overlapped, trustSide>>

\* request_l3_approval called as a tool of its own, lines 370-396; the caller
\* passes the hash of the artifact, computed here from its content
RequestL3Approval(p, content, reason) ==
    /\ call[p].pc = "idle"
    /\ Room(1)
    /\ QueueDemand < MaxQueue
    /\ StartCall(p, <<L3InsertStep(content, reason)>>)
    /\ UNCHANGED <<soa_ledger, clock, tables, overlapped, trustSide>>

\* archive_failure, lines 358-368
ArchiveFailure(p) ==
    /\ call[p].pc = "run"
    /\ Head(call[p].todo).kind = "archive"
    /\ shadow_genome' = shadow_genome + 1
    /\ call' = [call EXCEPT ![p] = Advance(call[p], Tail(call[p].todo))]
    /\ UNCHANGED <<soa_ledger, clock, system_state, l3_approval_queue,
                   agent_registry, reputation_log, agent_quarantine,
                   overlapped, trustSide>>


(***************************************************************************)
(* Trust Dynamics Engine (trust_engine.py): pure functions                 *)
(***************************************************************************)
LAMBDA_HIGH_RISK == 94      \* 0.94, in hundredths
LAMBDA_LOW_RISK == 97       \* 0.97, in hundredths
DAILY_PENALTY_CAP == (20 * Unit) \div 1000
PROBATION_VERIFICATIONS == 5
PROBATION_DURATION == 30    \* 30 * 24 * 3600 seconds, in days
PROBATION_FLOOR_SCI == (35 * Unit) \div 100
COOLING_OFF_HONEST == 1     \* 24 * 3600 seconds, in days
COOLING_OFF_MALICIOUS == 2  \* 48 * 3600 seconds, in days
DefaultBaseline == (4 * Unit) \div 10

\* MicroPenaltyType.value
PenaltyValue(penalty_type) ==
    CASE penalty_type = "SCHEMA_VIOLATION" -> (5 * Unit) \div 1000
      [] penalty_type = "API_MISUSE"       -> (5 * Unit) \div 1000
      [] penalty_type = "STALE_CITATION"   -> (10 * Unit) \div 1000

\* a decay factor that ignores the context
get_lambda_stable(context) == LAMBDA_LOW_RISK

get_lambda(context) ==
    IF context = "HIGH_RISK" THEN LAMBDA_HIGH_RISK ELSE LAMBDA_LOW_RISK

\* lam * current + (1 - lam) * outcome, rounded to the fixed-point grid
calculate_ewma_update(current_score, outcome_score, context) ==
    (get_lambda(context) * current_score
        + (100 - get_lambda(context)) * outcome_score + 50) \div 100

\* stage thresholds that include their lower bound
get_trust_stage_inclusive(score) ==
    IF score >= (8 * Unit) \div 10 THEN "IBT"
    ELSE IF score >= (5 * Unit) \div 10 THEN "KBT"
    ELSE "CBT"

get_trust_stage(score) ==
    IF score > (8 * Unit) \div 10 THEN "IBT"
    ELSE IF score > (5 * Unit) \div 10 THEN "KBT"
    ELSE "CBT"

\* a demotion target that never leaves the current score
DemotionTargetNone(current_score) == current_score

\* the ceiling of the next lower stage, for IBT and KBT
DemotionTarget(current_score) ==
    CASE get_trust_stage(current_score) = "IBT" -> (8 * Unit) \div 10
      [] get_trust_stage(current_score) = "KBT" -> (5 * Unit) \div 10
      [] OTHER -> current_score

\* a violation penalty whose fallback drop is not floored at 0
calculate_violation_penalty_unfloored(current_score) ==
    IF DemotionTarget(current_score) >= current_score
    THEN current_score - Unit \div 10
    ELSE DemotionTarget(current_score)

calculate_violation_penalty(current_score) ==
    IF DemotionTarget(current_score) >= current_score
    THEN Max(0, current_score - Unit \div 10)
    ELSE DemotionTarget(current_score)

\* a micro-penalty that ignores the daily cap
calculate_micro_penalty_uncapped(current_score, penalty_type, daily_penalty_sum) ==
    <<Max(0, current_score - PenaltyValue(penalty_type)),
      PenaltyValue(penalty_type)>>

\* returns <<new_score, applied_penalty>>
calculate_micro_penalty(current_score, penalty_type, daily_penalty_sum) ==
    LET remaining_cap == Max(0, DAILY_PENALTY_CAP - daily_penalty_sum)
        applied_penalty == Min(PenaltyValue(penalty_type), remaining_cap)
    IN  <<Max(0, current_score - applied_penalty), applied_penalty>>

\* (days_inactive / 30.0) * 0.01
DecayAmount(days_inactive) == (days_inactive * Unit) \div (30 * 100)

\* a decay that is not stopped at the baseline
calculate_temporal_decay_through(current_score, last_update_ts, baseline, now) ==
    IF last_update_ts > now THEN current_score
    ELSE IF now - last_update_ts <= 0 THEN current_score
    ELSE IF current_score > baseline
         THEN current_score - DecayAmount(now - last_update_ts)
    ELSE IF current_score < baseline
         THEN current_score + DecayAmount(now - last_update_ts)
    ELSE current_score

calculate_temporal_decay(current_score, last_update_ts, baseline, now) ==
    IF last_update_ts > now THEN current_score
    ELSE IF now - last_update_ts <= 0 THEN current_score
    ELSE IF current_score > baseline
         THEN Max(baseline, current_score - DecayAmount(now - last_update_ts))
    ELSE IF current_score < baseline
         THEN Min(baseline, current_score + DecayAmount(now - last_update_ts))
    ELSE current_score

get_cooling_off_duration(is_malicious) ==
    IF is_malicious THEN COOLING_OFF_MALICIOUS ELSE COOLING_OFF_HONEST

is_in_probation(created_at, verification_count, now) ==
    IF verification_count >= PROBATION_VERIFICATIONS THEN FALSE
    ELSE IF now - created_at >= PROBATION_DURATION THEN FALSE
    ELSE TRUE

NoDate == 0 - 1             \* a NULL penalty_reset_date

\* a row of agent_registry as registration and the schema defaults leave it
AgentRow(role, score, verification_count, created_at, now) ==
    [ role               |-> role,
      trust_score        |-> score,
      trust_stage        |-> get_trust_stage(score),
      verification_count |-> verification_count,
      created_at         |-> created_at,
      last_trust_update  |-> now,
      daily_penalty_sum  |-> 0,
      penalty_reset_date |-> NoDate,
      status             |-> "ACTIVE",
      influence_weight   |-> WeightUnit ]


(***************************************************************************)
(* Trust Manager (trust_manager.py)                                        *)
(***************************************************************************)
\* The arguments of one call, with the time it reads (time.time(), date.today())
Op(kind, agent_did, now) ==
    [ kind |-> kind, agent_did |-> agent_did, now |-> now,
      outcome_score |-> 0, context |-> "LOW_RISK",
      penalty_type |-> "SCHEMA_VIOLATION", baseline |-> DefaultBaseline,
      is_malicious |-> FALSE ]

NoOp == Op("none", UnknownDid, 0)

\* What a call has decided to write once it has read the agent's row:
\* ok = no exception and no early return, write = it goes on to UPDATE.
Plan(ok, write, old_score, new_score, daily_sum) ==
    [ ok |-> ok, write |-> write, old_score |-> old_score,
      new_score |-> new_score, daily_sum |-> daily_sum ]

NoPlan == Plan(FALSE, FALSE, 0, 0, 0)

\* call = the number of the call in the order the calls began
IdleTxn == [pc |-> "idle", op |-> NoOp, plan |-> NoPlan, call |-> 0]

\* the deal contracts 0.0 <= x <= 1.0 (pre on the arguments, post on the result)
InUnit(x) == 0 <= x /\ x <= Unit

\* update_trust_ewma, lines 98-120
EwmaPlan(row, op) ==
    LET current_score == row.trust_score
        in_probation == is_in_probation(row.created_at,
                                        row.verification_count, op.now)
        violation == 2 * op.outcome_score < Unit
        raw == IF violation THEN calculate_violation_penalty(current_score)
               ELSE calculate_ewma_update(current_score, op.outcome_score,
                                          op.context)
        new_score == IF in_probation THEN Max(raw, PROBATION_FLOOR_SCI) ELSE raw
        contract == violation \/ (/\ InUnit(current_score)
                                  /\ InUnit(op.outcome_score)
                                  /\ InUnit(raw))
    IN  Plan(contract, contract, current_score, new_score, row.daily_penalty_sum)

\* update_trust_ewma, lines 122-135
EwmaCommit(row, plan, now) ==
    [row EXCEPT !.trust_score = plan.new_score,
                !.trust_stage = get_trust_stage(plan.new_score),
                !.last_trust_update = now,
                !.verification_count = @ + 1]

\* apply_micro_penalty, lines 204-218
MicroPlan(row, op) ==
    LET today == op.now
        daily_penalty_sum ==
            IF row.penalty_reset_date # NoDate /\ row.penalty_reset_date < today
            THEN 0 ELSE row.daily_penalty_sum
        res == calculate_micro_penalty(row.trust_score, op.penalty_type,
                                       daily_penalty_sum)
        contract == /\ InUnit(row.trust_score)
                    /\ 0 <= daily_penalty_sum
                    /\ daily_penalty_sum <= DAILY_PENALTY_CAP
                    /\ InUnit(res[1])
                    /\ 0 <= res[2] /\ res[2] <= DAILY_PENALTY_CAP
    IN  Plan(contract, contract, row.trust_score, res[1],
             daily_penalty_sum + res[2])

\* apply_micro_penalty, lines 220-240
MicroCommit(row, plan, today, now) ==
    [row EXCEPT !.trust_score = plan.new_score,
                !.trust_stage = get_trust_stage(plan.new_score),
                !.daily_penalty_sum = plan.daily_sum,
                !.penalty_reset_date = today,
                !.last_trust_update = now]

\* apply_temporal_decay, lines 299-311
DecayPlan(row, op) ==
    LET new_score == calculate_temporal_decay(row.trust_score,
                        row.last_trust_update, op.baseline, op.now)
        contract == /\ InUnit(row.trust_score)
                    /\ row.last_trust_update >= 0
                    /\ InUnit(op.baseline)
                    /\ InUnit(new_score)
        delta == new_score - row.trust_score
        changed == ~(10000 * (IF delta < 0 THEN 0 - delta ELSE delta) < Unit)
    IN  Plan(contract, contract /\ changed, row.trust_score, new_score,
             row.daily_penalty_sum)

\* apply_temporal_decay, lines 313-325
DecayCommit(row, plan, now) ==
    [row EXCEPT !.trust_score = plan.new_score,
                !.trust_stage = get_trust_stage(plan.new_score),
                !.last_trust_update = now]

\* apply_violation_penalty, lines 435-443
ViolationPlan(row, op) ==
    Plan(TRUE, TRUE, row.trust_score,
         calculate_violation_penalty(row.trust_score), row.daily_penalty_sum)

\* apply_violation_penalty, lines 446-458
ViolationCommit(row, plan, now) ==
    [row EXCEPT !.trust_score = plan.new_score,
                !.trust_stage = get_trust_stage(plan.new_score),
                !.status = "QUARANTINED",
                !.last_trust_update = now]

PlanOf(row, op) ==
    CASE op.kind = "ewma"      -> EwmaPlan(row, op)
      [] op.kind = "micro"     -> MicroPlan(row, op)
      [] op.kind = "decay"     -> DecayPlan(row, op)
      [] op.kind = "violation" -> ViolationPlan(row, op)

CommitOf(row, op, plan, now) ==
    CASE op.kind = "ewma"      -> EwmaCommit(row, plan, now)
      [] op.kind = "micro"     -> MicroCommit(row, plan, op.now, now)
      [] op.kind = "decay"     -> DecayCommit(row, plan, now)
      [] op.kind = "violation" -> ViolationCommit(row, plan, now)

UpdateType(kind) ==
    CASE kind = "ewma"      -> "EWMA_UPDATE"
      [] kind = "micro"     -> "MICRO_PENALTY"
      [] kind = "decay"     -> "TEMPORAL_DECAY"
      [] kind = "violation" -> "VIOLATION_PENALTY"

TrustUpdateRow(agent_did, old_score, new_score, update_type, context, now) ==
    [ agent_did |-> agent_did, old_score |-> old_score, new_score |-> new_score,
      delta |-> new_score - old_score, update_type |-> update_type,
      context |-> context, timestamp |-> now ]

\* the context column each call writes
ContextOf(op) ==
    CASE op.kind = "ewma"      -> <<op.context, op.outcome_score>>
      [] op.kind = "micro"     -> <<op.penalty_type, 0>>
      [] op.kind = "decay"     -> <<"baseline", op.baseline>>
      [] op.kind = "violation" -> <<"reason", 0>>

\* the INSERTs INTO trust_updates of one call
HistoryRows(op, plan, now) ==
    <<TrustUpdateRow(op.agent_did, plan.old_score, plan.new_score,
                     UpdateType(op.kind), ContextOf(op), now)>>
    \o (IF op.kind = "violation"
        THEN <<TrustUpdateRow(op.agent_did, plan.new_score, plan.new_score,
                   "COOLING_OFF_START",
                   <<"duration", get_cooling_off_duration(op.is_malicious)>>, now)>>
        ELSE <<>>)

\* History of the Trust Manager calls: how many have begun, and for the
\* calls in progress together (a batch) the row they started from and
\* their arguments in the order they began; whether two calls have ever
\* been in progress together, and whether a call has committed on a later
\* day than the one it read; and what the call that returned last was
\* (its number in the order the calls began) and returned.
NoReturn == [call |-> 0, kind |-> "none", agent_did |-> UnknownDid,
             value |-> FALSE]

TxnHist0 == [begun |-> 0, base |-> AgentRow("none", 0, 0, 0, 0), ops |-> <<>>,
             concurrent |-> FALSE, straddled |-> FALSE, returned |-> NoReturn]

\* a call that returns True whatever it found
ReturnValueTrue(found, plan) == TRUE

\* the value of a call that does not go on to write: "return False" when the
\* agent is not found or an exception is caught, "return True" otherwise
ReturnValue(found, plan) == found /\ plan.ok

\* The SELECT of a call and the computation on what it read
\* (update_trust_ewma 85-120, apply_micro_penalty 190-218,
\*  apply_temporal_decay 286-311, apply_violation_penalty 422-443)
TrustBegin(p, op) ==
    /\ txn[p].pc = "idle"
    /\ txn_hist.begun < MaxTrustOps
    /\ LET found == op.agent_did \in DOMAIN agent_registry
           plan == IF found THEN PlanOf(agent_registry[op.agent_did], op)
                   ELSE NoPlan
           busy == \E q \in Procs \ {p} : txn[q].pc # "idle"
       IN  /\ txn' = [txn EXCEPT ![p] =
                        IF plan.write
                        THEN [pc |-> "write", op |-> op, plan |-> plan,
                              call |-> txn_hist.begun + 1]
                        ELSE IdleTxn]
           /\ txn_hist' =
                [ begun |-> txn_hist.begun + 1,
                  base |-> IF busy \/ ~found THEN txn_hist.base
                           ELSE agent_registry[op.agent_did],
                  ops |-> IF busy
                          THEN (IF plan.write THEN Append(txn_hist.ops, op)
                                ELSE txn_hist.ops)
                          ELSE (IF plan.write THEN <<op>> ELSE <<>>),
                  concurrent |-> txn_hist.concurrent \/ (busy /\ plan.write),
                  straddled |-> txn_hist.straddled,
                  returned |-> IF plan.write THEN txn_hist.returned
                               ELSE [call |-> txn_hist.begun + 1,
                                     kind |-> op.kind,
                                     agent_did |-> op.agent_did,
                                     value |-> ReturnValue(found, plan)] ]
    /\ UNCHANGED <<agent_registry, agent_quarantine, trust_updates,
                   tm_quarantine, clock>>
    /\ UNCHANGED serverSide

\* the row apply_violation_penalty INSERTs INTO agent_quarantine
CoolingOffRow(op, now) ==
    [ agent_did |-> op.agent_did, start_time |-> now,
      end_time |-> now + get_cooling_off_duration(op.is_malicious),
      reason |-> "reason", active |-> 1 ]

\* The UPDATE, the INSERTs and the commit of a call
\* (update_trust_ewma 122-163, apply_micro_penalty 220-268,
\*  apply_temporal_decay 313-348, apply_violation_penalty 446-504)
TrustWrite(p) ==
    /\ txn[p].pc = "write"
    /\ LET op == txn[p].op
           plan == txn[p].plan
       IN  /\ agent_registry' = [agent_registry EXCEPT ![op.agent_did] =
                                    CommitOf(@, op, plan, clock)]
           /\ trust_updates' = trust_updates \o HistoryRows(op, plan, clock)
           /\ tm_quarantine' = IF op.kind = "violation"
                               THEN Append(tm_quarantine, CoolingOffRow(op, clock))
                               ELSE tm_quarantine
    /\ txn' = [txn EXCEPT ![p] = IdleTxn]
    /\ txn_hist' = [txn_hist EXCEPT
                        !.straddled = @ \/ clock # txn[p].op.now,
                        !.returned = [call |-> txn[p].call,
                                      kind |-> txn[p].op.kind,
                                      agent_did |-> txn[p].op.agent_did,
                                      value |-> TRUE]]
    /\ UNCHANGED <<agent_quarantine, clock>>
    /\ UNCHANGED serverSide

update_trust_ewma(p, agent_did, outcome_score, context) ==
    TrustBegin(p, [Op("ewma", agent_did, clock) EXCEPT
                     !.outcome_score = outcome_score, !.context = context])

apply_micro_penalty(p, agent_did, penalty_type) ==
    TrustBegin(p, [Op("micro", agent_did, clock) EXCEPT
                     !.penalty_type = penalty_type])

apply_temporal_decay(p, agent_did, baseline) ==
    TrustBegin(p, [Op("decay", agent_did, clock) EXCEPT !.baseline = baseline])

apply_violation_penalty(p, agent_did, is_malicious) ==
    TrustBegin(p, [Op("violation", agent_did, clock) EXCEPT
                     !.is_malicious = is_malicious])

\* one call run alone on a row: what a serial execution makes of it
ApplyOp(row, op) ==
    IF PlanOf(row, op).write THEN CommitOf(row, op, PlanOf(row, op), op.now)
    ELSE row

\* A pure function of the trust engine applied to an input
FnIdle(current_score) ==
    [name |-> "none", current_score |-> current_score, result |-> 0]

CallViolationPenalty ==
    /\ fn.name = "none"
    /\ fn' = [fn EXCEPT !.name = "calculate_violation_penalty",
                        !.result = calculate_violation_penalty(fn.current_score)]
    /\ UNCHANGED <<trust_updates, tm_quarantine, txn, txn_hist, clock>>
    /\ UNCHANGED tables
    /\ UNCHANGED <<soa_ledger, call, overlapped, source_credibility, cred,
                 sentinel>>

(***************************************************************************)
(* Source credibility (credibility_manager.py, CredibilityManager) behind  *)
(* the server tools register_source, update_source_verification and        *)
(* check_source_credibility (server.py 776-858)                            *)
(***************************************************************************)
SCI_ESCALATE_L2 == 60
SCI_ESCALATE_L3 == 40
SCI_REJECT == 35

Tiers == {"T1", "T2", "T3", "T4"}

TIER_CREDIBILITY(tier) ==
    CASE tier = "T1" -> 100
      [] tier = "T2" -> 90
      [] tier = "T3" -> 70
      [] tier = "T4" -> 45

\* the URLs of the model: one on a T1 pattern, one on no pattern
Urls == {"rfc-editor.org/rfc1", "forum.example/q1"}

classify_source_tier(url) ==
    IF url = "rfc-editor.org/rfc1" THEN "T1" ELSE "T4"

\* hashlib.sha256(url.encode()).hexdigest()[:16], taken as collision-free
SourceId(url) == <<"sha256:16", url>>

NoSource == [present |-> FALSE]

NoSources == [id \in {SourceId(u) : u \in Urls} |-> NoSource]

\* the row register_source writes
SourceRow(tier, now) ==
    [ present |-> TRUE, tier |-> tier,
      base_credibility |-> TIER_CREDIBILITY(tier),
      current_sci |-> TIER_CREDIBILITY(tier),
      citation_count |-> 0, last_verified |-> now,
      verification_failures |-> 0, created_at |-> now ]

\* an update that lets a success go above the base credibility
NewSciUnbounded(current, base, success) ==
    IF success THEN current + 2 ELSE IF current - 10 >= 0 THEN current - 10 ELSE 0

\* min(base, current + 2) on success, max(0, current - 10) on failure
NewSci(current, base, success) ==
    IF success THEN Min(base, current + 2) ELSE Max(0, current - 10)

\* an escalation rule that relaxes the grade of a credible source
EscalationForRelaxing(sci, current_grade) ==
    IF sci < SCI_REJECT THEN <<TRUE, "REJECT: Source SCI below threshold">>
    ELSE IF current_grade = "L1" /\ sci < SCI_ESCALATE_L2 THEN <<TRUE, "L2">>
    ELSE IF current_grade = "L2" /\ sci < SCI_ESCALATE_L3 THEN <<TRUE, "L3">>
    ELSE IF sci >= SCI_ESCALATE_L2 THEN <<FALSE, "L1">>
    ELSE <<FALSE, current_grade>>

\* should_escalate_risk on a known SCI
EscalationFor(sci, current_grade) ==
    IF sci < SCI_REJECT THEN <<TRUE, "REJECT: Source SCI below threshold">>
    ELSE IF current_grade = "L1" /\ sci < SCI_ESCALATE_L2 THEN <<TRUE, "L2">>
    ELSE IF current_grade = "L2" /\ sci < SCI_ESCALATE_L3 THEN <<TRUE, "L3">>
    ELSE <<FALSE, current_grade>>

\* what the CredibilityManager never touches
credOutside == <<soa_ledger, clock, tables, call, overlapped, trust_updates,
                 tm_quarantine, txn, txn_hist, fn, sentinel>>

\* ReferenceTier[tier_override.upper()], "" when the name is no member
ReferenceTier(tier_override) ==
    CASE tier_override \in {"T1", "t1"} -> "T1"
      [] tier_override \in {"T2", "t2"} -> "T2"
      [] tier_override \in {"T3", "t3"} -> "T3"
      [] tier_override \in {"T4", "t4"} -> "T4"
      [] OTHER -> ""

IdleCred == [pc |-> "idle", op |-> "", url |-> "", grade |-> "",
             new_sci |-> 0, new_failures |-> 0]

NoAnswer == [sci |-> 0 - 1, escalate |-> FALSE, new_grade |-> ""]

\* no call in progress and none made.  calls: per process the call in
\* progress; log: the calls begun, in order; unseen: the URLs without a row
\* at the start; concurrent: some call began while another was in progress;
\* answer: what the last finished call returned
Cred0(unseen) ==
    [ calls |-> [p \in Procs |-> IdleCred], log |-> <<>>, unseen |-> unseen,
      concurrent |-> FALSE, answer |-> NoAnswer ]

\* a call by p begins: it is logged, and overlaps are noted
CredBegun(p, op, url, arg, rec, answer) ==
    [cred EXCEPT !.log = Append(@, [op |-> op, url |-> url, arg |-> arg]),
                 !.calls[p] = rec,
                 !.answer = answer,
                 !.concurrent = @ \/ \E q \in Procs \ {p} :
                                        cred.calls[q].pc # "idle"]

CanBegin(p) ==
    /\ cred.calls[p].pc = "idle"
    /\ Len(cred.log) < MaxSourceOps

\* server tool register_source (server.py 776-808) over
\* CredibilityManager.register_source: one INSERT OR REPLACE
RegisterSource(p, url, tier_override) ==
    /\ CanBegin(p)
    /\ IF tier_override # "" /\ ReferenceTier(tier_override) = ""
       THEN \* "Invalid tier. Use: T1, T2, T3, T4"
            /\ cred' = CredBegun(p, "register_source", url, tier_override,
                                 IdleCred, NoAnswer)
            /\ UNCHANGED source_credibility
       ELSE LET tier == IF tier_override = "" THEN classify_source_tier(url)
                        ELSE ReferenceTier(tier_override)
                row == SourceRow(tier, clock)
            IN /\ source_credibility' =
                      [source_credibility EXCEPT ![SourceId(url)] = row]
               /\ cred' = CredBegun(p, "register_source", url, tier_override,
                                    IdleCred,
                                    [NoAnswer EXCEPT !.sci = row.current_sci])
    /\ UNCHANGED credOutside

\* update_sci_on_verification, lines 245-266: the SELECT and the new values
\* computed from it; an unknown source goes to register_source instead
UpdateSciRead(p, url, success) ==
    /\ CanBegin(p)
    /\ LET row == source_credibility[SourceId(url)]
       IN cred' = CredBegun(p, "update_sci_on_verification", url,
              IF success THEN "True" ELSE "False",
              IF ~row.present
              THEN [IdleCred EXCEPT !.pc = "register", !.url = url,
                                    !.op = "update_sci_on_verification"]
              ELSE [IdleCred EXCEPT
                      !.pc = "write", !.url = url,
                      !.op = "update_sci_on_verification",
                      !.new_sci = NewSci(row.current_sci,
                                         row.base_credibility, success),
                      !.new_failures = IF success
                                       THEN row.verification_failures
                                       ELSE row.verification_failures + 1],
              cred.answer)
    /\ UNCHANGED <<source_credibility, credOutside>>

\* update_sci_on_verification, lines 268-277: the UPDATE, which sets the
\* computed values on whatever row the source has by now
UpdateSciWrite(p) ==
    LET c == cred.calls[p]
        id == SourceId(c.url)
    IN /\ c.pc = "write"
       /\ source_credibility' =
              IF source_credibility[id].present
              THEN [source_credibility EXCEPT
                      ![id].current_sci = c.new_sci,
                      ![id].verification_failures = c.new_failures,
                      ![id].last_verified = clock,
                      ![id].citation_count = @ + 1]
              ELSE source_credibility
       /\ cred' = [cred EXCEPT !.calls[p] = IdleCred,
                               !.answer = [NoAnswer EXCEPT !.sci = c.new_sci]]
       /\ UNCHANGED credOutside

\* the register_source(url) that update_sci_on_verification (lines 252-255)
\* and should_escalate_risk (lines 288-291) run for an unknown source, and
\* what each returns from the new record
RegisterUnknown(p) ==
    LET c == cred.calls[p]
        row == SourceRow(classify_source_tier(c.url), clock)
    IN /\ c.pc = "register"
       /\ source_credibility' =
              [source_credibility EXCEPT ![SourceId(c.url)] = row]
       /\ cred' = [cred EXCEPT
              !.calls[p] = IdleCred,
              !.answer =
                  IF c.op = "should_escalate_risk"
                  THEN LET e == EscalationFor(row.current_sci, c.grade)
                       IN [sci |-> row.current_sci, escalate |-> e[1],
                           new_grade |-> e[2]]
                  ELSE [NoAnswer EXCEPT !.sci = row.current_sci]]
       /\ UNCHANGED credOutside

\* should_escalate_risk, lines 279-302
ShouldEscalateRisk(p, source_url, current_grade) ==
    /\ CanBegin(p)
    /\ LET row == source_credibility[SourceId(source_url)]
           e == EscalationFor(row.current_sci, current_grade)
       IN cred' =
              IF ~row.present
              THEN CredBegun(p, "should_escalate_risk", source_url,
                             current_grade,
                             [IdleCred EXCEPT !.pc = "register",
                                              !.url = source_url,
                                              !.op = "should_escalate_risk",
                                              !.grade = current_grade],
                             cred.answer)
              ELSE CredBegun(p, "should_escalate_risk", source_url,
                             current_grade, IdleCred,
                             [sci |-> row.current_sci, escalate |-> e[1],
                              new_grade |-> e[2]])
    /\ UNCHANGED <<source_credibility, credOutside>>

\* no Sentinel run has begun
NoRun == [pc |-> "idle"]

(***************************************************************************)
(* Time                                                                    *)
(***************************************************************************)
Tick ==
    /\ clock < PROBATION_DURATION + MaxTicks
    /\ clock' = clock + 1
    /\ UNCHANGED <<soa_ledger, tables, call, overlapped, trustSide>>

(***************************************************************************)
(* The ledger and the server tools that write it, run by concurrent        *)
(* processes on one database                                               *)
(***************************************************************************)
AuditResults ==
    { [verdict |-> "PASS", risk_grade |-> "L2", requires_approval |-> FALSE,
       has_failure_modes |-> FALSE],
      [verdict |-> "FAIL", risk_grade |-> "L3", requires_approval |-> TRUE,
       has_failure_modes |-> TRUE],
      [verdict |-> "L3_REQUIRED", risk_grade |-> "L3", requires_approval |-> TRUE,
       has_failure_modes |-> FALSE] }

InitLedger ==
    /\ soa_ledger = <<>>
    /\ clock = PROBATION_DURATION
    /\ system_state = [db \in Databases |-> "NORMAL"]
    /\ l3_approval_queue = <<>>
    /\ shadow_genome = 0
    /\ agent_registry = [d \in Dids |->
            AgentRow("Scrivener", DefaultBaseline, 0, PROBATION_DURATION,
                     PROBATION_DURATION)]
    /\ reputation_log = <<>>
    /\ agent_quarantine = <<>>
    /\ call = [p \in Procs |-> IdleCall]
    /\ overlapped = FALSE
    /\ trust_updates = <<>>
    /\ tm_quarantine = <<>>
    /\ source_credibility = NoSources
    /\ cred = Cred0(Urls)
    /\ sentinel = NoRun
    /\ txn = [p \in Procs |-> IdleTxn]
    /\ txn_hist = TxnHist0
    /\ fn = FnIdle(0)

\* The server process runs its tools one call at a time; the peer is a second
\* process appending to the same ledger through log_event.
Server == "p1"
Peer == "p2"

ServerTool(p) ==
    \/ LogEvent(p, "Scrivener", "PROPOSAL", "L1", << <<"note", "n">> >>)
    \/ \E mode \in {"safe", "TURBO"} : SetOperationalMode(p, mode, "r")
    \/ RequestL3Approval(p, [text |-> "c", length |-> 1], "r")
    \/ \E approved \in BOOLEAN : ApproveL3(p, 1, approved, "")
    \/ \E d \in Dids \cup {UnknownDid} :
            ApplyPenalty(p, d, 0 - WeightUnit \div 4, "r")
    \/ \E track \in {"MANIPULATION", "WARNING"} :
            \E d \in Dids : QuarantineAgent(p, d, "r", track)
    \/ \E result \in AuditResults, admitted \in BOOLEAN :
            AuditCode(p, "a.py", [text |-> "c", length |-> 1], result, admitted)

NextLedger ==
    \/ Tick
    \/ \E p \in Procs :
        \/ LogEventRead(p)
        \/ LogEventInsert(p)
        \/ RequestL3Insert(p)
        \/ ArchiveFailure(p)
    \/ ServerTool(Server)
    \/ LogEvent(Peer, "Judge", "VERDICT", "L2", << <<"note", "n">> >>)

SpecLedger == InitLedger /\ [][NextLedger]_vars


(***************************************************************************)
(* The Trust Manager, called by concurrent processes on one database       *)
(***************************************************************************)
\* The agents the runs start from:
\* <<trust_score, verification_count, age, schema violations penalised today>>.
\* A newly registered agent, one at the probation floor with four
\* verifications, agents past probation at the ends of the range, and one
\* past probation that has already taken three micro-penalties today.
AgentProfiles ==
    { <<DefaultBaseline, 0, 0, 0>>,
      <<PROBATION_FLOOR_SCI, PROBATION_VERIFICATIONS - 1, 0, 0>>,
      <<0, PROBATION_VERIFICATIONS + 1, PROBATION_DURATION, 0>>,
      <<Unit, PROBATION_VERIFICATIONS + 1, PROBATION_DURATION, 0>>,
      <<(9 * Unit) \div 10, PROBATION_VERIFICATIONS + 1, PROBATION_DURATION, 3>> }

\* the row and the history apply_micro_penalty leaves after n schema
\* violations on one day, none of them cut by the cap or by the floor at 0
PenalisedRow(row, n, today) ==
    [row EXCEPT !.daily_penalty_sum = n * PenaltyValue("SCHEMA_VIOLATION"),
                !.penalty_reset_date = IF n > 0 THEN today ELSE NoDate,
                !.last_trust_update = IF n > 0 THEN today ELSE @]

PenaltyHistory(agent_did, score, n, today) ==
    [k \in 1 .. n |->
        TrustUpdateRow(agent_did,
                       score + (n - k + 1) * PenaltyValue("SCHEMA_VIOLATION"),
                       score + (n - k) * PenaltyValue("SCHEMA_VIOLATION"),
                       "MICRO_PENALTY", <<"SCHEMA_VIOLATION", 0>>, today)]

InitTrust ==
    /\ soa_ledger = <<>>
    /\ clock = PROBATION_DURATION
    /\ system_state = [db \in Databases |-> "NORMAL"]
    /\ l3_approval_queue = <<>>
    /\ shadow_genome = 0
    /\ \E prof \in AgentProfiles :
         /\ agent_registry = [d \in Dids |->
                PenalisedRow(AgentRow("Scrivener", prof[1], prof[2],
                                      PROBATION_DURATION - prof[3],
                                      PROBATION_DURATION - prof[3]),
                             prof[4], PROBATION_DURATION)]
         /\ trust_updates = PenaltyHistory("did:myth:scrivener:a1", prof[1],
                                           prof[4], PROBATION_DURATION)
    /\ reputation_log = <<>>
    /\ agent_quarantine = <<>>
    /\ call = [p \in Procs |-> IdleCall]
    /\ overlapped = FALSE
    /\ tm_quarantine = <<>>
    /\ source_credibility = NoSources
    /\ cred = Cred0(Urls)
    /\ sentinel = NoRun
    /\ txn = [p \in Procs |-> IdleTxn]
    /\ txn_hist = TxnHist0
    /\ fn = FnIdle(0)

\* The server process calls every operation; the worker is a second process
\* reporting verification outcomes and schema violations for the same agent.
TrustTool(p) ==
    \/ \E context \in {"HIGH_RISK", "LOW_RISK"} :
            update_trust_ewma(p, "did:myth:scrivener:a1", Unit, context)
    \/ \E d \in Dids \cup {UnknownDid} :
            update_trust_ewma(p, d, 0, "LOW_RISK")
    \/ \E d \in Dids, penalty_type \in {"SCHEMA_VIOLATION", "STALE_CITATION"} :
            apply_micro_penalty(p, d, penalty_type)
    \/ \E d \in Dids, baseline \in {DefaultBaseline, 2 * Unit} :
            apply_temporal_decay(p, d, baseline)
    \/ \E d \in Dids, is_malicious \in BOOLEAN :
            apply_violation_penalty(p, d, is_malicious)
    \/ apply_micro_penalty(p, UnknownDid, "SCHEMA_VIOLATION")
    \/ apply_temporal_decay(p, UnknownDid, DefaultBaseline)
    \/ apply_violation_penalty(p, UnknownDid, FALSE)

WorkerTool(p) ==
    \/ \E d \in Dids : update_trust_ewma(p, d, Unit, "LOW_RISK")
    \/ \E d \in Dids : apply_micro_penalty(p, d, "STALE_CITATION")

NextTrust ==
    \/ Tick
    \/ TrustTool(Server)
    \/ WorkerTool(Peer)
    \/ \E p \in Procs : TrustWrite(p)

SpecTrust == InitTrust /\ [][NextTrust]_vars

(***************************************************************************)
(* calculate_violation_penalty on every score of the grid                  *)
(***************************************************************************)
InitViolation ==
    /\ soa_ledger = <<>>
    /\ clock = PROBATION_DURATION
    /\ system_state = [db \in Databases |-> "NORMAL"]
    /\ l3_approval_queue = <<>>
    /\ shadow_genome = 0
    /\ agent_registry = [d \in Dids |->
            AgentRow("Scrivener", DefaultBaseline, 0, PROBATION_DURATION,
                     PROBATION_DURATION)]
    /\ reputation_log = <<>>
    /\ agent_quarantine = <<>>
    /\ call = [p \in Procs |-> IdleCall]
    /\ overlapped = FALSE
    /\ trust_updates = <<>>
    /\ tm_quarantine = <<>>
    /\ source_credibility = NoSources
    /\ cred = Cred0(Urls)
    /\ sentinel = NoRun
    /\ txn = [p \in Procs |-> IdleTxn]
    /\ txn_hist = TxnHist0
    /\ \E s \in 0 .. Unit : fn = FnIdle(s)

NextViolation == CallViolationPenalty

SpecViolation == InitViolation /\ [][NextViolation]_vars


(***************************************************************************)
(* Operational mode enforcement (advanced_features.py, ModeEnforcer) with  *)
(* the server tool that changes the mode                                   *)
(***************************************************************************)
\* ModeEnforcer.get_current_mode: the stored current_mode of system_state
\* row 1 in the database the enforcer connects to (get_db, DB_PATH)
get_current_mode(state) == state[EnforcerDb]

\* a SAFE mode that suspends every grade
should_verify_safe_suspends(mode, risk_grade, sampled) ==
    IF mode = "SAFE" THEN <<FALSE, "SAFE mode: suspended">>
    ELSE <<TRUE, "verify">>

\* a SURGE mode that still verifies L1
should_verify_surge_verifies(mode, risk_grade, sampled) ==
    IF mode = "SAFE" THEN <<risk_grade = "L3", "SAFE mode">>
    ELSE IF mode = "LEAN" /\ risk_grade = "L1" THEN <<sampled, "LEAN mode">>
    ELSE <<TRUE, "verify">>

\* should_verify; sampled is the outcome of random.random() < L1_SAMPLE_RATE
should_verify(mode, risk_grade, sampled) ==
    IF mode = "NORMAL" THEN <<TRUE, "NORMAL mode: Full verification">>
    ELSE IF mode = "LEAN"
    THEN IF risk_grade = "L1"
         THEN IF sampled THEN <<TRUE, "LEAN mode: L1 sampled for verification">>
              ELSE <<FALSE, "LEAN mode: L1 skipped (sampling)">>
         ELSE <<TRUE, "LEAN mode: L2/L3 full verification">>
    ELSE IF mode = "SURGE"
    THEN IF risk_grade = "L1" THEN <<FALSE, "SURGE mode: L1 deferred">>
         ELSE <<TRUE, "SURGE mode: L2/L3 prioritized">>
    ELSE IF mode = "SAFE"
    THEN IF risk_grade = "L3" THEN <<TRUE, "SAFE mode: L3 requires Overseer">>
         ELSE <<FALSE, "SAFE mode: Non-L3 suspended">>
    ELSE <<TRUE, "Unknown mode: Defaulting to verify">>

NoVerdict == [name |-> "none", mode |-> "NORMAL", risk_grade |-> "L1",
              result |-> TRUE, reason |-> ""]

\* one call of should_verify: it reads the stored mode and answers
ShouldVerify(risk_grade, sampled) ==
    /\ fn' = [name |-> "should_verify",
              mode |-> get_current_mode(system_state),
              risk_grade |-> risk_grade,
              result |-> should_verify(get_current_mode(system_state),
                                       risk_grade, sampled)[1],
              reason |-> should_verify(get_current_mode(system_state),
                                       risk_grade, sampled)[2]]
    /\ UNCHANGED <<trust_updates, tm_quarantine, txn, txn_hist, clock>>
    /\ UNCHANGED tables
    /\ UNCHANGED <<soa_ledger, call, overlapped, source_credibility, cred,
                 sentinel>>

\* the values current_mode can hold: the four modes and a value written by
\* something other than set_operational_mode
StoredModes == VALID_MODES \cup {"MAINTENANCE"}

InitMode ==
    /\ soa_ledger = <<>>
    /\ clock = PROBATION_DURATION
    /\ system_state \in [Databases -> StoredModes]
    /\ l3_approval_queue = <<>>
    /\ shadow_genome = 0
    /\ agent_registry = [d \in Dids |->
            AgentRow("Scrivener", DefaultBaseline, 0, PROBATION_DURATION,
                     PROBATION_DURATION)]
    /\ reputation_log = <<>>
    /\ agent_quarantine = <<>>
    /\ call = [p \in Procs |-> IdleCall]
    /\ overlapped = FALSE
    /\ trust_updates = <<>>
    /\ tm_quarantine = <<>>
    /\ source_credibility = NoSources
    /\ cred = Cred0(Urls)
    /\ sentinel = NoRun
    /\ txn = [p \in Procs |-> IdleTxn]
    /\ txn_hist = TxnHist0
    /\ fn = NoVerdict

NextMode ==
    \/ \E mode \in {"NORMAL", "lean", "SURGE", "safe", "TURBO"} :
            SetOperationalMode(Server, mode, "r")
    \/ LogEventRead(Server)
    \/ LogEventInsert(Server)
    \/ \E risk_grade \in {"L1", "L2", "L3"}, sampled \in BOOLEAN :
            ShouldVerify(risk_grade, sampled)

SpecMode == InitMode /\ [][NextMode]_vars


(***************************************************************************)
(* The Sentinel's audit (sentinel_engine.py 481-539).  A finding is the    *)
(* pair of its prefix ("WARN:" for an advisory finding, "" otherwise) and  *)
(* the rest of its text; the checks' outputs are inputs of the model.      *)
(***************************************************************************)
Finding(prefix, text) == <<prefix, text>>

\* f.startswith("WARN:")
StartsWithWarn(f) == f[1] = "WARN:"

\* classify_risk_grade on what it tests of its arguments: an L3 file pattern
\* found in the path, an L3 content pattern found in the content, and
\* content.strip() not empty
classify_risk_grade(artifact) ==
    IF artifact.l3_path THEN "L3"
    ELSE IF artifact.l3_content THEN "L3"
    ELSE IF artifact.strip_nonempty THEN "L2"
    ELSE "L1"

\* Content is a string of these: a blank, a line break, an ordinary
\* character, and a cipher name in lower case
Chars == {" ", "\n", "x", "aes"}

Contents == UNION {[1 .. n -> Chars] : n \in 0 .. MaxContent}

FilePaths == {"README.md", "src/utils.py", "Auth/login.py"}

IsSpace(ch) == ch \in {" ", "\n"}

RECURSIVE LStrip(_)
LStrip(content) ==
    IF content # <<>> /\ IsSpace(Head(content)) THEN LStrip(Tail(content))
    ELSE content

Reverse(content) ==
    [i \in 1 .. Len(content) |-> content[Len(content) + 1 - i]]

\* str.strip(): leading and trailing whitespace removed
Strip(content) == Reverse(LStrip(Reverse(LStrip(content))))

\* some L3_FILE_PATTERNS entry is found in file_path.lower()
SearchL3File(file_path) == file_path = "Auth/login.py"

\* some l3_content_patterns entry is found in content, ignoring case
SearchL3Content(content) == \E i \in 1 .. Len(content) : content[i] = "aes"

\* classify_risk_grade(file_path, content), lines 129-155
ArtifactOf(file_path, content) ==
    [ l3_path |-> SearchL3File(file_path),
      l3_content |-> SearchL3Content(content),
      strip_nonempty |-> Strip(content) # <<>> ]

\* the findings audit collects: safety checks for every grade, the L2+
\* checks for L2 and L3, the bounded model check for L3
AllFindings(risk_grade, checks) ==
    checks.safety
        \o (IF risk_grade \in {"L2", "L3"} THEN checks.l2 ELSE <<>>)
        \o (IF risk_grade = "L3" THEN checks.l3 ELSE <<>>)

\* a filter that keeps the advisory findings too
CriticalFailuresAll(all_findings) == all_findings

\* [f for f in all_findings if not f.startswith("WARN:")]
CriticalFailures(all_findings) ==
    SelectSeq(all_findings, LAMBDA f : ~StartsWithWarn(f))

\* approval asked only of artifacts the bounded model check flags
RequiresApprovalOnFindings(risk_grade, checks) ==
    risk_grade = "L3" /\ checks.l3 # <<>>

\* requires_approval = False, set to True in the L3 branch
RequiresApproval(risk_grade, checks) == risk_grade = "L3"

Verdict(critical_failures, requires_approval) ==
    IF critical_failures # <<>> THEN "FAIL"
    ELSE IF requires_approval THEN "L3_REQUIRED"
    ELSE "PASS"

audit(artifact, checks) ==
    LET risk_grade == classify_risk_grade(artifact)
        all_findings == AllFindings(risk_grade, checks)
        requires_approval == RequiresApproval(risk_grade, checks)
    IN  [ verdict |-> Verdict(CriticalFailures(all_findings), requires_approval),
          risk_grade |-> risk_grade,
          failure_modes |-> all_findings,
          requires_approval |-> requires_approval ]

\* the artifacts: content that matches an L3 pattern is not empty
Artifacts ==
    { a \in [l3_path : BOOLEAN, l3_content : BOOLEAN,
              strip_nonempty : BOOLEAN] :
        a.l3_content => a.strip_nonempty }

\* what the checks report: nothing, an advisory finding, or a critical one
CheckOutputs ==
    [ safety : { <<>>, <<Finding("WARN:", " Static analysis failed")>>,
                 <<Finding("", "HARDCODED_SECRET")>> },
      l2 : { <<>>, <<Finding("WARN:", "COMPLEXITY:f=12")>>,
             <<Finding("", "CITATION_DEPTH")>> },
      l3 : { <<>>, <<Finding("WARN:", " CBMC unavailable")>>,
             <<Finding("", "BMC:NULL_POINTER")>> } ]

NoAudit(artifact, checks) ==
    [name |-> "none", artifact |-> artifact, checks |-> checks,
     result |-> [verdict |-> "", risk_grade |-> "", failure_modes |-> <<>>,
                 requires_approval |-> FALSE]]

Audit ==
    /\ fn.name = "none"
    /\ fn' = [fn EXCEPT !.name = "audit",
                        !.result = audit(fn.artifact, fn.checks)]
    /\ UNCHANGED <<trust_updates, tm_quarantine, txn, txn_hist, clock>>
    /\ UNCHANGED tables
    /\ UNCHANGED <<soa_ledger, call, overlapped, source_credibility, cred,
                 sentinel>>

InitAudit ==
    /\ soa_ledger = <<>>
    /\ clock = PROBATION_DURATION
    /\ system_state = [db \in Databases |-> "NORMAL"]
    /\ l3_approval_queue = <<>>
    /\ shadow_genome = 0
    /\ agent_registry = [d \in Dids |->
            AgentRow("Scrivener", DefaultBaseline, 0, PROBATION_DURATION,
                     PROBATION_DURATION)]
    /\ reputation_log = <<>>
    /\ agent_quarantine = <<>>
    /\ call = [p \in Procs |-> IdleCall]
    /\ overlapped = FALSE
    /\ trust_updates = <<>>
    /\ tm_quarantine = <<>>
    /\ source_credibility = NoSources
    /\ cred = Cred0(Urls)
    /\ sentinel = NoRun
    /\ txn = [p \in Procs |-> IdleTxn]
    /\ txn_hist = TxnHist0
    /\ \E artifact \in Artifacts, checks \in CheckOutputs :
            fn = NoAudit(artifact, checks)

NextAudit == Audit

SpecAudit == InitAudit /\ [][NextAudit]_vars


(***************************************************************************)
(* Quarantine: the server's quarantine tools (server.py 1136-1212) over    *)
(* QuarantineManager (credibility_manager.py 317-448), and the trust       *)
(* update tool (server.py 886-924), called one at a time by the server     *)
(***************************************************************************)
\* SELECT ... WHERE agent_did = ? AND status = 'ACTIVE' AND end_time > now
is_agent_quarantined(table, agent_did, now) ==
    \E i \in 1 .. Len(table) :
        /\ table[i].agent_did = agent_did
        /\ table[i].status = "ACTIVE"
        /\ table[i].end_time > now

\* the rows the sweep selects: status = 'ACTIVE' AND end_time <= now
Expired(row, now) == row.status = "ACTIVE" /\ row.end_time <= now

\* release_expired_quarantines: the records go to COMPLETED and the agents
\* back to ACTIVE in one commit; the tool returns the list and logs nothing
ReleaseExpiredQuarantines(p) ==
    /\ call[p].pc = "idle"
    /\ txn[p].pc = "idle"
    /\ LET released == { agent_quarantine[i].agent_did :
                            i \in { j \in 1 .. Len(agent_quarantine) :
                                      Expired(agent_quarantine[j], clock) } }
       IN  /\ agent_quarantine' =
                [i \in 1 .. Len(agent_quarantine) |->
                    IF Expired(agent_quarantine[i], clock)
                    THEN [agent_quarantine[i] EXCEPT !.status = "COMPLETED"]
                    ELSE agent_quarantine[i]]
           /\ agent_registry' =
                [d \in DOMAIN agent_registry |->
                    IF d \in released
                    THEN [agent_registry[d] EXCEPT !.status = "ACTIVE"]
                    ELSE agent_registry[d]]
    /\ UNCHANGED <<soa_ledger, clock, system_state, l3_approval_queue,
                   shadow_genome, reputation_log, call, overlapped, trustSide>>

\* TrustContext[context.upper()] for the names the model passes
ValidContexts == {"LOW_RISK", "HIGH_RISK"}

\* update_agent_trust: an unknown context is an error response, anything
\* else goes to update_trust_ewma
UpdateAgentTrust(p, agent_did, outcome_score, context) ==
    /\ call[p].pc = "idle"
    /\ IF context \in ValidContexts
       THEN update_trust_ewma(p, agent_did, outcome_score, context)
       ELSE UNCHANGED vars

\* 48 hours pass
WaitOutQuarantine ==
    /\ clock < PROBATION_DURATION + MaxTicks
    /\ clock' = clock + MANIPULATION_DURATION
    /\ UNCHANGED <<soa_ledger, tables, call, overlapped, trustSide>>

QuarantineTool(p) ==
    \/ /\ txn[p].pc = "idle"
       /\ \E d \in Dids, track \in {"HONEST_ERROR", "MANIPULATION", "WARNING"} :
            QuarantineAgent(p, d, "r", track)
    \/ ReleaseExpiredQuarantines(p)
    \/ \E outcome_score \in {0, Unit}, context \in {"LOW_RISK", "MEDIUM"} :
            UpdateAgentTrust(p, "did:myth:scrivener:a1", outcome_score, context)

NextQuarantine ==
    \/ Tick
    \/ WaitOutQuarantine
    \/ QuarantineTool(Server)
    \/ LogEventRead(Server)
    \/ LogEventInsert(Server)
    \/ TrustWrite(Server)

SpecQuarantine == InitLedger /\ [][NextQuarantine]_vars


(***************************************************************************)
(* Source credibility: the CredibilityManager called by two processes on   *)
(* one database                                                            *)
(***************************************************************************)
\* a community source four failed verifications after its registration
FailedSource ==
    [SourceRow("T4", PROBATION_DURATION) EXCEPT
        !.current_sci = 5, !.citation_count = 4, !.verification_failures = 4]

\* the table at the start: empty, or holding FailedSource
SourceTables ==
    { NoSources,
      [NoSources EXCEPT ![SourceId("forum.example/q1")] = FailedSource] }

InitCred ==
    /\ soa_ledger = <<>>
    /\ clock = PROBATION_DURATION
    /\ system_state = [db \in Databases |-> "NORMAL"]
    /\ l3_approval_queue = <<>>
    /\ shadow_genome = 0
    /\ agent_registry = [d \in Dids |->
            AgentRow("Scrivener", DefaultBaseline, 0, PROBATION_DURATION,
                     PROBATION_DURATION)]
    /\ reputation_log = <<>>
    /\ agent_quarantine = <<>>
    /\ call = [p \in Procs |-> IdleCall]
    /\ overlapped = FALSE
    /\ trust_updates = <<>>
    /\ tm_quarantine = <<>>
    /\ source_credibility \in SourceTables
    /\ cred = Cred0({u \in Urls : ~source_credibility[SourceId(u)].present})
    /\ sentinel = NoRun
    /\ txn = [p \in Procs |-> IdleTxn]
    /\ txn_hist = TxnHist0
    /\ fn = FnIdle(0)

Grades == {"L1", "L2", "L3"}

SourceTool(p) ==
    \/ \E url \in Urls, tier_override \in {"", "t4", "T9"} :
            RegisterSource(p, url, tier_override)
    \/ \E url \in Urls, success \in BOOLEAN : UpdateSciRead(p, url, success)
    \/ \E url \in Urls, grade \in Grades : ShouldEscalateRisk(p, url, grade)

\* the second process re-registers and updates the official source
PeerSourceTool(p) ==
    \/ RegisterSource(p, "rfc-editor.org/rfc1", "t4")
    \/ UpdateSciRead(p, "rfc-editor.org/rfc1", TRUE)

NextCred ==
    \/ SourceTool(Server)
    \/ PeerSourceTool(Peer)
    \/ \E p \in Procs : UpdateSciWrite(p)
    \/ \E p \in Procs : RegisterUnknown(p)

SpecCred == InitCred /\ [][NextCred]_vars


(***************************************************************************)
(* Pure functions of the engines, each called once on arguments drawn      *)
(* from its domain                                                         *)
(***************************************************************************)
\* everything but fn
store == <<soa_ledger, clock, system_state, l3_approval_queue, shadow_genome,
           agent_registry, reputation_log, agent_quarantine, call, overlapped,
           trust_updates, tm_quarantine, source_credibility, cred, sentinel,
           txn, txn_hist>>

NoCall == [name |-> "none"]

InitEngine ==
    /\ soa_ledger = <<>>
    /\ clock = PROBATION_DURATION
    /\ system_state = [db \in Databases |-> "NORMAL"]
    /\ l3_approval_queue = <<>>
    /\ shadow_genome = 0
    /\ agent_registry = [d \in Dids |->
            AgentRow("Scrivener", DefaultBaseline, 0, PROBATION_DURATION,
                     PROBATION_DURATION)]
    /\ reputation_log = <<>>
    /\ agent_quarantine = <<>>
    /\ call = [p \in Procs |-> IdleCall]
    /\ overlapped = FALSE
    /\ trust_updates = <<>>
    /\ tm_quarantine = <<>>
    /\ source_credibility = NoSources
    /\ cred = Cred0(Urls)
    /\ sentinel = NoRun
    /\ txn = [p \in Procs |-> IdleTxn]
    /\ txn_hist = TxnHist0
    /\ fn = NoCall

\* the SCI values a row can hold: 0 up to the T1 base
SciValues == 0 .. TIER_CREDIBILITY("T1")

\* should_escalate_risk (credibility_manager.py 279-302) on a source whose
\* SCI is sci
CallShouldEscalateRisk ==
    /\ fn.name = "none"
    /\ \E sci \in SciValues, current_grade \in Grades :
          fn' = [name |-> "should_escalate_risk", sci |-> sci,
                 current_grade |-> current_grade,
                 result |-> EscalationFor(sci, current_grade)]
    /\ UNCHANGED store

\* SentinelFallback.escalate_grade_on_unavailable, lines 518-532
escalate_grade_on_unavailable(sentinel_available, current_grade) ==
    IF sentinel_available THEN current_grade
    ELSE CASE current_grade = "L1" -> "L2"
           [] current_grade = "L2" -> "L3"
           [] current_grade = "L3" -> "L3"
           [] OTHER -> "L3"

CallEscalateGradeOnUnavailable ==
    /\ fn.name = "none"
    /\ \E sentinel_available \in BOOLEAN, current_grade \in Grades :
          fn' = [name |-> "escalate_grade_on_unavailable",
                 sentinel_available |-> sentinel_available,
                 current_grade |-> current_grade,
                 result |-> escalate_grade_on_unavailable(sentinel_available,
                                                          current_grade)]
    /\ UNCHANGED store

\* DAMPING_FACTOR = 0.5 as numerator and denominator
DAMPING_FACTOR == <<1, 2>>
MAX_HOPS == 3

\* what a call gives back: a value num/den, or an exception
Returns(num, den) == [kind |-> "return", num |-> num, den |-> den]
Raises(exception) == [kind |-> "raise", exception |-> exception]

RECURSIVE Pow(_, _)
Pow(b, n) == IF n = 0 THEN 1 ELSE b * Pow(b, n - 1)

\* the scores of a path are in tenths, so that their products stay within
\* TLC's integers
PathUnit == Unit \div 300

\* the loop of lines 276-284 on fixed-point links: the product of the links,
\* each later one times DAMPING_FACTOR, as an exact fraction
RECURSIVE LinkProduct(_)
LinkProduct(links) ==
    IF links = <<>> THEN <<1, 1>>
    ELSE LET rest == LinkProduct(Tail(links))
         IN <<Head(links) * DAMPING_FACTOR[1] * rest[1],
              PathUnit * DAMPING_FACTOR[2] * rest[2]>>

\* calculate_transitive_trust, lines 249-289, with its deal contracts
calculate_transitive_trust(trust_path) ==
    IF \E i \in 1 .. Len(trust_path) :
            ~(0 <= trust_path[i] /\ trust_path[i] <= PathUnit)
    THEN Raises("PreContractError")
    ELSE IF ~(Len(trust_path) <= MAX_HOPS) THEN Raises("PreContractError")
    ELSE IF trust_path = <<>> THEN Returns(0, 1)
    ELSE IF Len(trust_path) > MAX_HOPS THEN Returns(0, 1)
    ELSE LET rest == LinkProduct(Tail(trust_path))
         IN Returns(Head(trust_path) * rest[1], PathUnit * rest[2])

\* the direct trust scores a path is made of
LinkScores == {0, PathUnit \div 2, (9 * PathUnit) \div 10, PathUnit}

Paths == UNION {[1 .. n -> LinkScores] : n \in 0 .. MaxPath}

CallTransitiveTrust ==
    /\ fn.name = "none"
    /\ \E trust_path \in Paths :
          fn' = [name |-> "calculate_transitive_trust",
                 trust_path |-> trust_path,
                 result |-> calculate_transitive_trust(trust_path)]
    /\ UNCHANGED store

\* scores around the default baseline and at the ends of [0, 1], and one
\* outside it
DecayScores == {0, DefaultBaseline - 10, DefaultBaseline, DefaultBaseline + 10,
                Unit \div 2, Unit, Unit + 1}

DecayBaselines == {0, DefaultBaseline, Unit}

\* calculate_temporal_decay (trust_engine.py 98-140) with its deal
\* contracts, at time clock; last_update_ts runs from long ago to the future
CallTemporalDecay ==
    /\ fn.name = "none"
    /\ \E current_score \in DecayScores, baseline \in DecayBaselines,
          last_update_ts \in 0 .. clock + 2 :
          LET value == calculate_temporal_decay(current_score, last_update_ts,
                                                baseline, clock)
          IN fn' = [name |-> "calculate_temporal_decay",
                    current_score |-> current_score,
                    last_update_ts |-> last_update_ts,
                    baseline |-> baseline, now |-> clock,
                    result |-> IF /\ InUnit(current_score)
                                  /\ last_update_ts >= 0
                                  /\ InUnit(baseline)
                                  /\ InUnit(value)
                               THEN Returns(value, Unit)
                               ELSE Raises("ContractError")]
    /\ UNCHANGED store

\* scores from 0 to 1 in steps of 1/60, and one above 1
EwmaScores == {(k * Unit) \div 60 : k \in 0 .. 61}

\* calculate_ewma_update (trust_engine.py 71-96) with its deal contracts
CallEwmaUpdate ==
    /\ fn.name = "none"
    /\ \E current_score \in EwmaScores, context \in {"HIGH_RISK", "LOW_RISK"},
          outcome_score \in {0, Unit \div 2, Unit} :
          LET value == calculate_ewma_update(current_score, outcome_score,
                                             context)
          IN fn' = [name |-> "calculate_ewma_update",
                    current_score |-> current_score,
                    outcome_score |-> outcome_score,
                    context |-> context,
                    result |-> IF /\ InUnit(current_score)
                                  /\ InUnit(outcome_score)
                                  /\ InUnit(value)
                               THEN Returns(value, Unit)
                               ELSE Raises("ContractError")]
    /\ UNCHANGED store

CallClassifyRiskGrade ==
    /\ fn.name = "none"
    /\ \E file_path \in FilePaths, content \in Contents :
          fn' = [name |-> "classify_risk_grade", file_path |-> file_path,
                 content |-> content,
                 result |-> classify_risk_grade(ArtifactOf(file_path, content))]
    /\ UNCHANGED store

(***************************************************************************)
(* The entry hash of one append: the log_event tool (server.py 306-341),   *)
(* which hashes the payload string its caller wrote, and log_event of      *)
(* qdna.py 49-85, which serialises the payload dict itself.  A payload is  *)
(* the sequence of its key/value pairs in the order they are written.      *)
(***************************************************************************)
Payloads ==
    { << <<k1, v1>>, <<k2, v2>> >> :
        k1 \in {"agent"}, v1 \in {"x", "y"}, k2 \in {"reason"}, v2 \in {"x", "y"} }
    \cup
    { << <<k2, v2>>, <<k1, v1>> >> :
        k1 \in {"agent"}, v1 \in {"x", "y"}, k2 \in {"reason"}, v2 \in {"x", "y"} }

\* the keys in lexicographic order
KeyOrder(k) == IF k = "agent" THEN 1 ELSE 2

\* json.dumps(final_payload, sort_keys=True)
SortKeys(payload) ==
    SortSeq(payload, LAMBDA a, b : KeyOrder(a[1]) < KeyOrder(b[1]))

\* qdna.get_keys without a credentials file
MockDid(role) == <<"did:myth", Lower(role), "mock">>

\* server.py 322-326
ServerEntryHash(role, payload, prev_hash, now) ==
    compute_entry_hash(StrTime(now), RoleDid(role), payload, prev_hash)

\* qdna.py 63-75
QdnaEntryHash(role, payload, prev_hash, now) ==
    compute_entry_hash(StrTime(now), MockDid(role), SortKeys(payload), prev_hash)

PrevHashes == {GENESIS_HASH, ServerEntryHash("Judge", <<>>, GENESIS_HASH, 0)}

\* two appends at the same time on the same tail, by the same signer
CallLogEvent ==
    /\ fn.name = "none"
    /\ \E payload \in Payloads, reordered \in Payloads, prev_hash \in PrevHashes :
          fn' = [name |-> "log_event", payload |-> payload,
                 reordered |-> reordered,
                 entry_hash |->
                    ServerEntryHash("Scrivener", payload, prev_hash, clock),
                 entry_hash_reordered |->
                    ServerEntryHash("Scrivener", reordered, prev_hash, clock)]
    /\ UNCHANGED store

CallQdnaLogEvent ==
    /\ fn.name = "none"
    /\ \E payload \in Payloads, reordered \in Payloads, prev_hash \in PrevHashes :
          fn' = [name |-> "qdna.log_event", payload |-> payload,
                 reordered |-> reordered,
                 entry_hash |->
                    QdnaEntryHash("Scrivener", payload, prev_hash, clock),
                 entry_hash_reordered |->
                    QdnaEntryHash("Scrivener", reordered, prev_hash, clock)]
    /\ UNCHANGED store

NextEngine ==
    \/ CallShouldEscalateRisk
    \/ CallEscalateGradeOnUnavailable
    \/ CallTransitiveTrust
    \/ CallTemporalDecay
    \/ CallEwmaUpdate
    \/ CallClassifyRiskGrade
    \/ CallLogEvent
    \/ CallQdnaLogEvent

SpecEngine == InitEngine /\ [][NextEngine]_vars


(***************************************************************************)
(* The Sentinel's audit as a pipeline over external tools                  *)
(* (sentinel_engine.py 301-539): pylint and mypy run as subprocesses, the  *)
(* CBMC verifier module, the Z3 contract verifier; and the CBMC            *)
(* subprocess of cbmc_verifier.py 108-223                                  *)
(***************************************************************************)
\* How a tool behaves is decided when it is called.
\*   subprocesses: "ok" it runs and exits, "missing" no such executable,
\*                 "error" the call raises, "hang" it never exits
\*   cbmc_module:  "ok" imported, "missing" ImportError, "error" verify raises
\*   z3:           "ok", "unavailable" not installed, "solver_error" the
\*                 solver raises or answers unknown inside verify_with_z3,
\*                 "raises" an exception escapes verify_with_z3
\*   heuristics:   whether heuristic_patterns can be imported
CbmcModules == {"ok", "missing", "error"}
Z3s == {"ok", "unavailable", "solver_error", "raises"}

\* the entries of the UNSAFE_FUNCTIONS list (lines 91-96) the model's
\* contents use, in the order of the list
UNSAFE_FUNCTIONS == <<"eval(", "open(">>

\* What the content holds: a hard-coded secret, calls of unsafe functions,
\* an error pylint and mypy report, a division by zero, and deal range
\* contracts ("none", "consistent" or "contradictory")
ContentFeatures ==
    [ secret : BOOLEAN, unsafe : SUBSET {"eval(", "open("}, lint : BOOLEAN,
      div_zero : BOOLEAN, contracts : {"none", "consistent", "contradictory"} ]

NoFeatures == [secret |-> FALSE, unsafe |-> {}, lint |-> FALSE,
               div_zero |-> FALSE, contracts |-> "none"]

\* f"{FailureMode.UNSAFE_FUNCTION.value}:{func}"
UnsafeFinding(func) ==
    IF func = "open(" THEN Finding("", "UNSAFE_FUNCTION:open(")
    ELSE Finding("", "UNSAFE_FUNCTION:eval(")

\* check_unsafe_functions, lines 166-172
check_unsafe_functions(features) ==
    LET found == SelectSeq(UNSAFE_FUNCTIONS, LAMBDA func : func \in features.unsafe)
    IN  [i \in 1 .. Len(found) |-> UnsafeFinding(found[i])]

\* the audited files: an empty README, a document, a Python module, and a
\* Python module on an L3 path; only non-empty content has features
AuditInputs ==
    { [artifact |-> [l3_path |-> FALSE, l3_content |-> FALSE,
                     strip_nonempty |-> FALSE],
       python |-> FALSE, features |-> NoFeatures] }
    \cup
    { [artifact |-> [l3_path |-> l3, l3_content |-> FALSE,
                     strip_nonempty |-> TRUE],
       python |-> py, features |-> f] :
        l3 \in BOOLEAN, py \in BOOLEAN, f \in ContentFeatures }

\* check_secrets (lines 157-164), then check_unsafe_functions: audit 497-498
SafetyFindings(features) ==
    (IF features.secret THEN <<Finding("", "HARDCODED_SECRET")>> ELSE <<>>)
    \o check_unsafe_functions(features)

\* the except FileNotFoundError branch of check_static_analysis, lines
\* 460-469: the advisory finding, then what the heuristic scanner reports
MissingToolsFindings(heuristics, features) ==
    <<Finding("WARN:", " Static analysis tools (pylint/mypy) not found.")>>
    \o (IF heuristics /\ features.secret
        THEN <<Finding("", "HEURISTIC_FALLBACK:SECRET")>> ELSE <<>>)

\* the except Exception branch of check_static_analysis, lines 471-472
StaticAnalysisFailed == <<Finding("WARN:", " Static analysis failed")>>

\* check_formal_contracts, lines 301-341, and verify_with_z3
\* (contract_verifier.py 21-60)
check_formal_contracts(z3, features) ==
    CASE z3 = "unavailable" ->
            <<Finding("WARN:", " Z3 solver unavailable for Tier 3 verification")>>
      [] z3 = "raises" ->
            IF features.contracts = "none" THEN <<>>
            ELSE <<Finding("WARN:", " Formal verification failed")>>
      [] z3 = "solver_error" ->
            IF features.contracts = "none" THEN <<>>
            ELSE IF features.contracts = "contradictory"
            THEN <<Finding("", "LOGICAL_CONTRADICTION: Range contradiction")>>
            ELSE <<Finding("", "LOGICAL_CONTRADICTION: Solver error")>>
      [] z3 = "ok" ->
            IF features.contracts = "contradictory"
            THEN <<Finding("", "LOGICAL_CONTRADICTION: Range contradiction")>>
            ELSE <<>>

\* bounded_model_check, lines 343-398
bounded_model_check(cbmc_module, z3, features) ==
    (CASE cbmc_module = "ok" ->
            IF features.div_zero THEN <<Finding("", "DIVISION_BY_ZERO")>>
            ELSE <<>>
       [] cbmc_module = "missing" ->
            <<Finding("WARN:", " CBMCVerifier module not found")>>
            \o (IF features.div_zero THEN <<Finding("", "DIVISION_BY_ZERO")>>
                ELSE <<>>)
       [] cbmc_module = "error" ->
            <<Finding("WARN:", " BMC failed")>>)
    \o check_formal_contracts(z3, features)

\* audit, lines 486-504: the grade, the static safety checks, and whether
\* static analysis runs
StartAudit ==
    /\ sentinel.pc = "idle"
    /\ \E input \in AuditInputs :
          sentinel' =
              [ pc |-> IF input.python THEN "pylint" ELSE "checks",
                op |-> "audit", input |-> input,
                risk_grade |-> classify_risk_grade(input.artifact),
                all_findings |-> SafetyFindings(input.features),
                static |-> <<>>,
                requires_approval |-> FALSE, verdict |-> "" ]
    /\ UNCHANGED <<soa_ledger, clock, tables, call, overlapped, trust_updates,
                   tm_quarantine, txn, txn_hist, fn, source_credibility, cred>>

\* check_static_analysis returns: all_findings.extend(findings), line 504
StaticAnalysisDone(findings) ==
    [sentinel EXCEPT !.pc = "checks", !.static = <<>>,
                     !.all_findings = @ \o findings]

\* the interpreter is inside subprocess.run, which has no timeout, for good
Blocked == [sentinel EXCEPT !.pc = "blocked"]

\* check_static_analysis, lines 441-451: subprocess.run(['pylint', ...]) with
\* no timeout; the call returns only when the process exits
PylintRun ==
    /\ sentinel.pc = "pylint"
    /\ \E pylint \in {"ok", "missing", "error", "hang"}, heuristics \in BOOLEAN :
          sentinel' =
              CASE pylint = "ok" ->
                      [sentinel EXCEPT !.pc = "mypy",
                          !.static = IF sentinel.input.features.lint
                                     THEN <<Finding("", "PYLINT:E0602")>>
                                     ELSE <<>>]
                [] pylint = "missing" ->
                      StaticAnalysisDone(
                          MissingToolsFindings(heuristics,
                                               sentinel.input.features))
                [] pylint = "error" -> StaticAnalysisDone(StaticAnalysisFailed)
                [] pylint = "hang" -> Blocked
    /\ UNCHANGED <<soa_ledger, clock, tables, call, overlapped, trust_updates,
                   tm_quarantine, txn, txn_hist, fn, source_credibility, cred>>

\* check_static_analysis, lines 453-474: subprocess.run(['mypy', ...]) with
\* no timeout
MypyRun ==
    /\ sentinel.pc = "mypy"
    /\ \E mypy \in {"ok", "missing", "hang"}, heuristics \in BOOLEAN :
          sentinel' =
              CASE mypy = "ok" ->
                      StaticAnalysisDone(
                          sentinel.static
                          \o (IF sentinel.input.features.lint
                              THEN <<Finding("", "MYPY:error")>> ELSE <<>>))
                [] mypy = "missing" ->
                      StaticAnalysisDone(
                          sentinel.static
                          \o MissingToolsFindings(heuristics,
                                                  sentinel.input.features))
                [] mypy = "hang" -> Blocked
    /\ UNCHANGED <<soa_ledger, clock, tables, call, overlapped, trust_updates,
                   tm_quarantine, txn, txn_hist, fn, source_credibility, cred>>

\* audit, lines 506-539: the L2+ checks (which find nothing in these
\* contents), the L3 checks, and the verdict
FinishAudit ==
    /\ sentinel.pc = "checks"
    /\ \E cbmc_module \in CbmcModules, z3 \in Z3s :
          LET l3 == sentinel.risk_grade = "L3"
              findings == sentinel.all_findings
                  \o (IF l3 THEN bounded_model_check(cbmc_module, z3,
                                            sentinel.input.features)
                      ELSE <<>>)
          IN sentinel' =
                 [sentinel EXCEPT
                     !.pc = "done", !.all_findings = findings,
                     !.requires_approval = l3,
                     !.verdict = IF CriticalFailures(findings) # <<>>
                                 THEN "FAIL"
                                 ELSE IF l3 THEN "L3_REQUIRED"
                                 ELSE "PASS"]
    /\ UNCHANGED <<soa_ledger, clock, tables, call, overlapped, trust_updates,
                   tm_quarantine, txn, txn_hist, fn, source_credibility, cred>>

\* verify_c_code, lines 108-175: the availability probe, then
\* subprocess.run(cmd, timeout=timeout)
VerifyCCode ==
    /\ sentinel.pc = "idle"
    /\ \E cbmc \in {"pass", "fail", "missing", "hang"} :
          sentinel' =
              IF cbmc = "missing"
              THEN [pc |-> "done", op |-> "verify_c_code", cbmc |-> cbmc,
                    status |-> "UNAVAILABLE"]
              ELSE [pc |-> "cbmc", op |-> "verify_c_code", cbmc |-> cbmc,
                    status |-> ""]
    /\ UNCHANGED <<soa_ledger, clock, tables, call, overlapped, trust_updates,
                   tm_quarantine, txn, txn_hist, fn, source_credibility, cred>>

\* verify_c_code, lines 177-223: the process exits, or DEFAULT_TIMEOUT
\* seconds pass and subprocess.TimeoutExpired is caught
CbmcRun ==
    /\ sentinel.pc = "cbmc"
    /\ sentinel' = [sentinel EXCEPT
                       !.pc = "done",
                       !.status = CASE sentinel.cbmc = "pass" -> "PASS"
                                    [] sentinel.cbmc = "fail" -> "FAIL"
                                    [] sentinel.cbmc = "hang" -> "TIMEOUT"]
    /\ UNCHANGED <<soa_ledger, clock, tables, call, overlapped, trust_updates,
                   tm_quarantine, txn, txn_hist, fn, source_credibility, cred>>

NextSentinel ==
    \/ StartAudit
    \/ PylintRun
    \/ MypyRun
    \/ FinishAudit
    \/ VerifyCCode
    \/ CbmcRun

SpecSentinel == InitEngine /\ [][NextSentinel]_vars

\* every step that can be taken is taken: the interpreter runs on
FairSentinel == SpecSentinel /\ WF_vars(NextSentinel)


(***************************************************************************)
(* Influence weights: TrustEngine.normalize_trust_vector and               *)
(* apply_anchor_damping (trust_engine.py 293-358),                         *)
(* TrustManager.update_influence_weights (trust_manager.py 510-574) and    *)
(* the record_clean_audit tool (server.py 1417-1437) over                  *)
(* ReputationRecovery.record_clean_audit (advanced_features.py 500-556).   *)
(* A vector is a function from the DIDs the SELECT returned; its entries   *)
(* come out in units of 1 / WeightUnit.                                    *)
(***************************************************************************)
\* "return uniform distribution or zeros": the variant that returns zeros
normalize_trust_vector_zeros(scores) ==
    LET total == SumOver(DOMAIN scores, scores)
    IN  IF total = 0
        THEN [d \in DOMAIN scores |-> 0]
        ELSE [d \in DOMAIN scores |-> (scores[d] * WeightUnit) \div total]

\* lines 308-315; an empty vector comes back empty
normalize_trust_vector(scores) ==
    LET total == SumOver(DOMAIN scores, scores)
    IN  IF total = 0
        THEN [d \in DOMAIN scores |-> WeightUnit \div Cardinality(DOMAIN scores)]
        ELSE [d \in DOMAIN scores |-> (scores[d] * WeightUnit) \div total]

\* the blend with the teleportation term left out
apply_anchor_damping_undamped(current_vector, anchor_vector, damping_factor) ==
    current_vector

\* lines 342-358, damping_factor in hundredths:
\* val = damping_factor * t + (1.0 - damping_factor) * a
apply_anchor_damping(current_vector, anchor_vector, damping_factor) ==
    [d \in DOMAIN current_vector |->
        (damping_factor * current_vector[d]
            + (100 - damping_factor) * anchor_vector[d]) \div 100]

\* role in ["Judge", "Overseer", "Sentinel"]
AnchorRoles == {"Judge", "Overseer", "Sentinel"}

\* SELECT did ... FROM agent_registry WHERE status = 'ACTIVE'
ActiveAgents(registry) == {d \in DOMAIN registry : registry[d].status = "ACTIVE"}

\* the weights update_influence_weights computes, lines 525-557
FinalWeights(registry) ==
    LET dids == ActiveAgents(registry)
        scores == [d \in dids |-> registry[d].trust_score]
        normalized_scores == normalize_trust_vector(scores)
        anchor_scores == [d \in dids |->
                            IF registry[d].role \in AnchorRoles THEN Unit ELSE 0]
        normalized_anchors == normalize_trust_vector(anchor_scores)
    IN  IF DOMAIN normalized_anchors # {}
        THEN apply_anchor_damping(normalized_scores, normalized_anchors, 85)
        ELSE normalized_scores

\* update_influence_weights, lines 515-574.  A score outside [0, 1] fails the
\* contract of normalize_trust_vector; the except clause returns False and
\* nothing is written.  fn keeps the return value and the number of
\* reputation_log rows at the time of the call.
UpdateInfluenceWeights ==
    LET agents == ActiveAgents(agent_registry)
        ok == \A d \in agents : InUnit(agent_registry[d].trust_score)
        final_weights == FinalWeights(agent_registry)
    IN  /\ agent_registry' =
                IF agents = {} \/ ~ok THEN agent_registry
                ELSE [d \in DOMAIN agent_registry |->
                        IF d \in agents
                        THEN [agent_registry[d] EXCEPT
                                !.influence_weight = final_weights[d]]
                        ELSE agent_registry[d]]
        /\ fn' = [name |-> "update_influence_weights", result |-> ok,
                  writes |-> Len(reputation_log)]
        /\ UNCHANGED <<soa_ledger, clock, system_state, l3_approval_queue,
                       shadow_genome, reputation_log, agent_quarantine, call,
                       overlapped, trust_updates, tm_quarantine, txn, txn_hist,
                       source_credibility, cred, sentinel>>

\* ReputationRecovery, advanced_features.py 484-486
RECOVERY_RATE == WeightUnit \div 100
MAX_WEIGHT == 2 * WeightUnit

\* round(x, 4) of a weight, in ten-thousandths
Round4(w) == (w * 10000 + WeightUnit \div 2) \div WeightUnit

\* the record_clean_audit tool: ReputationRecovery.record_clean_audit, then
\* the REWARD event when recovery was applied
RecordCleanAudit(p, agent_did) ==
    /\ call[p].pc = "idle"
    /\ IF agent_did \notin DOMAIN agent_registry
       THEN UNCHANGED <<agent_registry, reputation_log, call>>
       ELSE LET old_weight == agent_registry[agent_did].influence_weight
                new_weight == Min(MAX_WEIGHT, old_weight + RECOVERY_RATE)
            IN  IF old_weight >= MAX_WEIGHT
                THEN UNCHANGED <<agent_registry, reputation_log, call>>
                ELSE /\ Room(1)
                     /\ agent_registry' = [agent_registry EXCEPT
                            ![agent_did].influence_weight = new_weight]
                     /\ reputation_log' = Append(reputation_log,
                            [agent_did |-> agent_did, previous_weight |-> old_weight,
                             new_weight |-> new_weight, adjustment |-> RECOVERY_RATE])
                     /\ StartCall(p, <<LogStep(Event("Judge", "REWARD", "L1",
                            << <<"agent_did", agent_did>>,
                               <<"reason", "Clean audit recovery">>,
                               <<"delta", Num(Round4(new_weight - old_weight))>> >>))>>)
    /\ UNCHANGED <<soa_ledger, clock, system_state, l3_approval_queue,
                   shadow_genome, agent_quarantine, overlapped, trustSide>>

(***************************************************************************)
(* The weight tools on a registry of three agents.  The registry holds     *)
(* any mix of roles, scores and statuses; every weight starts at the 1.0   *)
(* registration gives it (identity_manager.py 183-190).                    *)
(***************************************************************************)
WeightDids == {"did:myth:a1", "did:myth:b2", "did:myth:c3"}

\* role, trust_score, status
WeightProfiles ==
    { <<"Scrivener", 0, "ACTIVE">>,
      <<"Scrivener", Unit \div 2, "ACTIVE">>,
      <<"Scrivener", Unit, "ACTIVE">>,
      <<"Judge", 0, "ACTIVE">>,
      <<"Sentinel", Unit, "ACTIVE">>,
      <<"Scrivener", Unit, "QUARANTINED">> }

WeightRow(profile) ==
    [AgentRow(profile[1], profile[2], PROBATION_VERIFICATIONS + 1,
              0, PROBATION_DURATION) EXCEPT !.status = profile[3]]

InitWeights ==
    /\ soa_ledger = <<>>
    /\ clock = PROBATION_DURATION
    /\ system_state = [db \in Databases |-> "NORMAL"]
    /\ l3_approval_queue = <<>>
    /\ shadow_genome = 0
    /\ \E profiles \in [WeightDids -> WeightProfiles] :
            agent_registry = [d \in WeightDids |-> WeightRow(profiles[d])]
    /\ reputation_log = <<>>
    /\ agent_quarantine = <<>>
    /\ call = [p \in Procs |-> IdleCall]
    /\ overlapped = FALSE
    /\ trust_updates = <<>>
    /\ tm_quarantine = <<>>
    /\ source_credibility = NoSources
    /\ cred = Cred0(Urls)
    /\ sentinel = NoRun
    /\ txn = [p \in Procs |-> IdleTxn]
    /\ txn_hist = TxnHist0
    /\ fn = NoCall

\* the tools are called until MaxWeightWrites rows are in reputation_log
WeightTool(p) ==
    /\ Len(reputation_log) < MaxWeightWrites
    /\ \/ \E d \in {"did:myth:a1", UnknownDid} :
            \E amount \in {0 - WeightUnit \div 4, WeightUnit \div 2} :
                ApplyPenalty(p, d, amount, "r")
       \/ \E d \in {"did:myth:a1", UnknownDid} : RecordCleanAudit(p, d)

NextWeights ==
    \/ UpdateInfluenceWeights
    \/ WeightTool(Server)
    \/ LogEventRead(Server)
    \/ LogEventInsert(Server)

SpecWeights == InitWeights /\ [][NextWeights]_vars


(***************************************************************************)
(* Ledger properties                                                       *)
(***************************************************************************)
\* entry i names its predecessor's hash (the genesis constant for the first)
Linked(i) ==
    soa_ledger[i].prev_hash =
        IF i = 1 THEN GENESIS_HASH ELSE soa_ledger[i - 1].entry_hash

\* entry i's stored hash is the hash of its stored fields
Replays(i) ==
    soa_ledger[i].entry_hash =
        compute_entry_hash(soa_ledger[i].timestamp, soa_ledger[i].agent_did,
                           soa_ledger[i].payload, soa_ledger[i].prev_hash)

IntegrityError ==
    \E i \in 1..Len(soa_ledger) : ~Linked(i) \/ ~Replays(i)

\* C1: no two ledger entries have the same prev_hash, also when log_event
\* appends run concurrently.
C1_NoSharedPrevHash ==
    \A i, j \in 1..Len(soa_ledger) :
        i # j => soa_ledger[i].prev_hash # soa_ledger[j].prev_hash

\* C2: as long as no two log_event appends have overlapped, every entry's
\* prev_hash is the entry_hash of the entry before it, and the first entry's is
\* the genesis constant.
C2_ChainLinkedWhenSerial ==
    ~overlapped => \A i \in 1..Len(soa_ledger) : Linked(i)

C2_Witness ==
    /\ ~overlapped
    /\ Len(soa_ledger) >= 3
    /\ \E i, j \in 1..Len(soa_ledger) :
          /\ i < j
          /\ soa_ledger[i].agent_did = RoleDid("Judge")
          /\ soa_ledger[j].agent_did # RoleDid("Judge")

\* C3: recomputing the hash of every entry from its stored timestamp, signer,
\* payload and prev_hash gives the stored entry_hash.
C3_StoredHashReplays ==
    \A i \in 1..Len(soa_ledger) : Replays(i)

\* C4: every step leaves the entries already written in place and unchanged;
\* the ledger only grows at its tail.
C4_AppendOnly ==
    [][ /\ Len(soa_ledger') >= Len(soa_ledger)
        /\ SubSeq(soa_ledger', 1, Len(soa_ledger)) = soa_ledger
        /\ \A i \in 1..Len(soa_ledger') : soa_ledger'[i].entry_id = i ]_vars

C4_Witness ==
    /\ Len(soa_ledger) >= 3
    /\ \E i, j, k \in 1..Len(soa_ledger) :
          /\ soa_ledger[i].event_type = "MODE_CHANGE"
          /\ soa_ledger[j].event_type = "L3_APPROVED"
          /\ soa_ledger[k].event_type \in {"PENALTY", "QUARANTINE", "AUDIT_REQUEST"}

\* C5: once the stored chain contains an integrity error, no entry is written.
C5_HaltOnIntegrityError ==
    [][IntegrityError => soa_ledger' = soa_ledger]_vars


(***************************************************************************)
(* Trust Manager properties                                                *)
(***************************************************************************)
\* the fields of an agent's row the trust operations maintain
TrustFields(row) ==
    <<row.trust_score, row.trust_stage, row.daily_penalty_sum,
      row.verification_count>>

\* two calls of update_trust_ewma / apply_micro_penalty on one agent were in
\* progress together and both have committed
TwoOverlappingDone ==
    /\ \A p \in Procs : txn[p].pc = "idle"
    /\ Len(txn_hist.ops) = 2
    /\ txn_hist.ops[1].agent_did = txn_hist.ops[2].agent_did
    /\ \A k \in 1 .. 2 : txn_hist.ops[k].kind \in {"ewma", "micro"}

\* C6: when two Trust Manager updates (update_trust_ewma, apply_micro_penalty)
\* on the same agent run concurrently, the agent's final trust score, stage,
\* daily penalty sum and verification count are those of one of the two
\* serial orders of the two updates.
C6_ConcurrentUpdatesSerialize ==
    TwoOverlappingDone =>
        LET o1 == txn_hist.ops[1]
            o2 == txn_hist.ops[2]
            b0 == txn_hist.base
        IN  TrustFields(agent_registry[o1.agent_did]) \in
                { TrustFields(ApplyOp(ApplyOp(b0, o1), o2)),
                  TrustFields(ApplyOp(ApplyOp(b0, o2), o1)) }

\* C7 as stated: calculate_violation_penalty(s) < s for every s in [0, 1],
\* at most 0.8 from IBT and at most 0.5 from KBT.
C7_StrictlyLowerEverywhere ==
    fn.name = "calculate_violation_penalty" =>
        /\ fn.result < fn.current_score
        /\ get_trust_stage(fn.current_score) = "IBT" =>
                fn.result <= (8 * Unit) \div 10
        /\ get_trust_stage(fn.current_score) = "KBT" =>
                fn.result <= (5 * Unit) \div 10

\* C7: calculate_violation_penalty(s) < s for every s in (0, 1], and at
\* s = 0 the result is 0; the result is at most 0.8 when s is in IBT and at
\* most 0.5 when s is in KBT.
C7_ViolationPenaltyLowers ==
    fn.name = "calculate_violation_penalty" =>
        /\ fn.current_score > 0 => fn.result < fn.current_score
        /\ fn.current_score = 0 => fn.result = 0
        /\ get_trust_stage(fn.current_score) = "IBT" =>
                fn.result <= (8 * Unit) \div 10
        /\ get_trust_stage(fn.current_score) = "KBT" =>
                fn.result <= (5 * Unit) \div 10

C7_Witness ==
    /\ fn.name = "calculate_violation_penalty"
    /\ get_trust_stage(fn.current_score) = "IBT"
    /\ fn.result = (8 * Unit) \div 10

\* C8: while an agent is in probation no Trust Manager operation takes its
\* score from at or above the probation floor 0.35 to below it (checked on
\* runs whose calls do not overlap).
C8_ProbationFloorHolds ==
    [][ \A a \in DOMAIN agent_registry :
          ( /\ ~txn_hist.concurrent'
            /\ is_in_probation(agent_registry[a].created_at,
                               agent_registry[a].verification_count, clock)
            /\ agent_registry[a].trust_score >= PROBATION_FLOOR_SCI )
          => agent_registry'[a].trust_score >= PROBATION_FLOOR_SCI ]_vars

\* the micro-penalty rows of an agent's history written on one day, in order
MicroRowsOn(agent_did, day) ==
    SelectSeq(trust_updates,
              LAMBDA r : /\ r.agent_did = agent_did
                         /\ r.update_type = "MICRO_PENALTY"
                         /\ r.timestamp = day)

RECURSIVE DeductedSum(_)
\* what the rows took off the score
DeductedSum(rows) ==
    IF rows = <<>> THEN 0
    ELSE DeductedSum(SubSeq(rows, 1, Len(rows) - 1))
            + (rows[Len(rows)].old_score - rows[Len(rows)].new_score)

RECURSIVE AppliedSum(_)
\* what the rows count against the cap: min(penalty value, remaining budget)
AppliedSum(rows) ==
    IF rows = <<>> THEN 0
    ELSE LET before == AppliedSum(SubSeq(rows, 1, Len(rows) - 1))
         IN  before + Min(PenaltyValue(rows[Len(rows)].context[1]),
                          Max(0, DAILY_PENALTY_CAP - before))

\* the runs the daily accounting is stated for: calls one after another,
\* each within one calendar day
SerialWithinDays == ~txn_hist.concurrent /\ ~txn_hist.straddled

\* C9 as stated: the total deducted on a day never exceeds the cap 0.020,
\* each call deducts min(penalty value, cap - amount already deducted), and
\* the stored daily penalty sum equals the amount deducted that day.
C9_StoredSumIsDeducted ==
    SerialWithinDays =>
        \A a \in DOMAIN agent_registry :
            LET row == agent_registry[a]
                rows == MicroRowsOn(a, row.penalty_reset_date)
            IN  row.penalty_reset_date # NoDate =>
                    /\ DeductedSum(rows) <= DAILY_PENALTY_CAP
                    /\ row.daily_penalty_sum = DeductedSum(rows)
                    /\ \A k \in 1 .. Len(rows) :
                          rows[k].old_score - rows[k].new_score =
                            Min(PenaltyValue(rows[k].context[1]),
                                DAILY_PENALTY_CAP
                                    - DeductedSum(SubSeq(rows, 1, k - 1)))

\* C9: for one agent within one calendar day the total deducted never
\* exceeds the cap 0.020; each call counts min(penalty value, cap - amount
\* already counted) against the cap and deducts that amount or, if smaller,
\* the whole current score; the stored daily penalty sum equals the amount
\* counted, which is at least the amount deducted.
C9_DailyCapAccounting ==
    SerialWithinDays =>
        \A a \in DOMAIN agent_registry :
            LET row == agent_registry[a]
                rows == MicroRowsOn(a, row.penalty_reset_date)
            IN  row.penalty_reset_date # NoDate =>
                    /\ DeductedSum(rows) <= DAILY_PENALTY_CAP
                    /\ row.daily_penalty_sum = AppliedSum(rows)
                    /\ row.daily_penalty_sum <= DAILY_PENALTY_CAP
                    /\ DeductedSum(rows) <= row.daily_penalty_sum
                    /\ \A k \in 1 .. Len(rows) :
                          rows[k].old_score - rows[k].new_score =
                            Min(rows[k].old_score,
                                Min(PenaltyValue(rows[k].context[1]),
                                    DAILY_PENALTY_CAP
                                        - AppliedSum(SubSeq(rows, 1, k - 1))))

\* a penalty has been cut to the budget left under the cap
C9_Witness ==
    /\ SerialWithinDays
    /\ \E a \in DOMAIN agent_registry :
         LET row == agent_registry[a]
             rows == MicroRowsOn(a, row.penalty_reset_date)
         IN  /\ row.penalty_reset_date # NoDate
             /\ row.daily_penalty_sum = DAILY_PENALTY_CAP
             /\ Len(rows) > 1
             /\ 0 < rows[Len(rows)].old_score - rows[Len(rows)].new_score
             /\ rows[Len(rows)].old_score - rows[Len(rows)].new_score
                    < PenaltyValue(rows[Len(rows)].context[1])

\* C10: after any sequence of Trust Manager operations, overlapping or
\* not, every agent's trust score is in [0.0, 1.0].
C10_ScoreInUnitRange ==
    \A a \in DOMAIN agent_registry : InUnit(agent_registry[a].trust_score)

\* a violation penalty has been committed on a score below the fallback drop
C10_Witness ==
    \E k \in 1 .. Len(trust_updates) :
        /\ trust_updates[k].update_type = "VIOLATION_PENALTY"
        /\ trust_updates[k].old_score < Unit \div 10
        /\ agent_registry[trust_updates[k].agent_did].trust_score = 0

\* C11: after every Trust Manager operation that writes an agent's score, the
\* persisted trust stage is the stage of the persisted score: CBT when
\* score <= 0.5, KBT when 0.5 < score <= 0.8, IBT when score > 0.8.
C11_StageMatchesScore ==
    \A a \in DOMAIN agent_registry :
        LET row == agent_registry[a]
        IN  /\ row.trust_score <= (5 * Unit) \div 10 => row.trust_stage = "CBT"
            /\ ( /\ row.trust_score > (5 * Unit) \div 10
                 /\ row.trust_score <= (8 * Unit) \div 10 )
                    => row.trust_stage = "KBT"
            /\ row.trust_score > (8 * Unit) \div 10 => row.trust_stage = "IBT"

\* an operation has written a score that sits exactly on the KBT ceiling
C11_Witness ==
    \E k \in 1 .. Len(trust_updates) :
        /\ trust_updates[k].new_score = (8 * Unit) \div 10
        /\ trust_updates[k].old_score > (8 * Unit) \div 10
        /\ agent_registry[trust_updates[k].agent_did].trust_score
                = (8 * Unit) \div 10
        /\ agent_registry[trust_updates[k].agent_did].trust_stage = "KBT"


(***************************************************************************)
(* Mode enforcement properties                                             *)
(***************************************************************************)
\* C12: in every operating mode (NORMAL, LEAN, SURGE, SAFE and any
\* unrecognised stored value) should_verify("L3") returns true, whatever
\* mode changes came before.
C12_L3AlwaysVerified ==
    (fn.name = "should_verify" /\ fn.risk_grade = "L3") => fn.result = TRUE

\* L3 has been asked for in SAFE mode after a logged mode change
C12_Witness ==
    /\ fn.name = "should_verify"
    /\ fn.risk_grade = "L3"
    /\ fn.mode = "SAFE"
    /\ fn.result = TRUE
    /\ \E i \in 1 .. Len(soa_ledger) : soa_ledger[i].event_type = "MODE_CHANGE"

\* C13: should_verify follows the mode table: NORMAL verifies L1, L2, L3;
\* LEAN verifies L2 and L3 and samples L1 (true or false); SURGE skips L1
\* and verifies L2 and L3; SAFE verifies only L3.
C13_ModeTable ==
    fn.name = "should_verify" =>
        /\ fn.mode = "NORMAL" => fn.result = TRUE
        /\ fn.mode = "LEAN" =>
              IF fn.risk_grade = "L1" THEN fn.result \in BOOLEAN
              ELSE fn.result = TRUE
        /\ fn.mode = "SURGE" => fn.result = (fn.risk_grade # "L1")
        /\ fn.mode = "SAFE" => fn.result = (fn.risk_grade = "L3")

\* an L1 artifact has been skipped by the LEAN sampling
C13_Witness ==
    /\ fn.name = "should_verify"
    /\ fn.mode = "LEAN"
    /\ fn.risk_grade = "L1"
    /\ fn.result = FALSE


(***************************************************************************)
(* Sentinel properties                                                     *)
(***************************************************************************)
\* the audit found at least one finding that is not an advisory WARN finding
HasCritical(result) ==
    \E k \in 1 .. Len(result.failure_modes) :
        ~StartsWithWarn(result.failure_modes[k])

\* C14: audit resolves its verdict in this order: FAIL if and only if at
\* least one finding is critical (not an advisory WARN finding); otherwise
\* the human-review verdict if and only if requires_approval is true;
\* otherwise PASS.
C14_VerdictOrder ==
    fn.name = "audit" =>
        /\ fn.result.verdict = "FAIL" <=> HasCritical(fn.result)
        /\ fn.result.verdict = "L3_REQUIRED" <=>
                (~HasCritical(fn.result) /\ fn.result.requires_approval)
        /\ fn.result.verdict = "PASS" <=>
                (~HasCritical(fn.result) /\ ~fn.result.requires_approval)

\* an artifact with advisory findings only has been sent to human review
C14_Witness ==
    /\ fn.name = "audit"
    /\ fn.result.verdict = "L3_REQUIRED"
    /\ fn.result.failure_modes # <<>>

\* C15: for every audit result, requires_approval is true exactly when the
\* risk grade is L3, whatever the findings are; so an artifact graded L3
\* never receives the verdict PASS.
C15_L3RequiresApproval ==
    fn.name = "audit" =>
        /\ fn.result.requires_approval <=> fn.result.risk_grade = "L3"
        /\ fn.result.risk_grade = "L3" => fn.result.verdict # "PASS"

\* an L3 artifact without any finding has been audited
C15_Witness ==
    /\ fn.name = "audit"
    /\ fn.result.risk_grade = "L3"
    /\ fn.result.failure_modes = <<>>
    /\ fn.result.requires_approval


(***************************************************************************)
(* Quarantine properties                                                   *)
(***************************************************************************)
\* the step appends a quarantine record of the given track for agent a
QuarantinedNow(a, track) ==
    /\ Len(agent_quarantine') = Len(agent_quarantine) + 1
    /\ agent_quarantine'[Len(agent_quarantine')].agent_did = a
    /\ agent_quarantine'[Len(agent_quarantine')].track = track

\* C16: after quarantine_agent with track HONEST_ERROR the agent is released
\* immediately: the new record is not ACTIVE, is_agent_quarantined reports
\* false and the agent's status in the registry is ACTIVE, not QUARANTINED
\* (for an agent that was ACTIVE and not quarantined before the call).
C16_HonestErrorReleasesAtOnce ==
    [][ \A a \in DOMAIN agent_registry :
          ( /\ QuarantinedNow(a, "HONEST_ERROR")
            /\ agent_registry[a].status = "ACTIVE"
            /\ ~is_agent_quarantined(agent_quarantine, a, clock) )
          => /\ agent_quarantine'[Len(agent_quarantine')].status # "ACTIVE"
             /\ ~is_agent_quarantined(agent_quarantine', a, clock')
             /\ agent_registry'[a].status = "ACTIVE" ]_vars

\* a ledger entry other than the QUARANTINE entry that names the agent
ReleaseLogged(a) ==
    \E i \in 1 .. Len(soa_ledger) :
        /\ soa_ledger[i].event_type # "QUARANTINE"
        /\ \E k \in 1 .. Len(soa_ledger[i].payload) :
                soa_ledger[i].payload[k] = <<"agent_did", a>>

\* C17: whenever release_expired_quarantines has moved a record from ACTIVE
\* to COMPLETED and set the agent back to ACTIVE, the ledger holds an entry
\* recording that release.
C17_ReleaseIsLogged ==
    \A i \in 1 .. Len(agent_quarantine) :
        ( /\ agent_quarantine[i].status = "COMPLETED"
          /\ QuarantineDuration(agent_quarantine[i].track) > 0 )
        => ReleaseLogged(agent_quarantine[i].agent_did)

\* C18: while an agent has an ACTIVE quarantine record whose end time has not
\* passed, no server call made for that agent changes the agent's row.
C18_QuarantinedAgentIsDenied ==
    [][ \A a \in DOMAIN agent_registry :
          ( /\ is_agent_quarantined(agent_quarantine, a, clock)
            /\ txn[Server].pc = "write"
            /\ txn[Server].op.agent_did = a
            /\ is_agent_quarantined(agent_quarantine, a, txn[Server].op.now) )
          => agent_registry'[a] = agent_registry[a] ]_vars


(***************************************************************************)
(* Source credibility properties                                           *)
(***************************************************************************)
SourceRows == {id \in DOMAIN source_credibility : source_credibility[id].present}

CallsOn(url) == SelectSeq(cred.log, LAMBDA e : e.url = url)

FailedUpdate(url) ==
    [op |-> "update_sci_on_verification", url |-> url, arg |-> "False"]

\* C20: for a T4 source not seen before, after two failed verifications
\* reported through update_sci_on_verification the SCI is 25, and
\* should_escalate_risk on that source then reports REJECT for every grade
C20_TwoFailuresReject ==
    \A url \in cred.unseen, grade \in Grades :
        ( /\ classify_source_tier(url) = "T4"
          /\ ~cred.concurrent
          /\ \A p \in Procs : cred.calls[p].pc = "idle"
          /\ CallsOn(url) = << FailedUpdate(url), FailedUpdate(url),
                               [op |-> "should_escalate_risk", url |-> url,
                                arg |-> grade] >>
          /\ cred.log[Len(cred.log)].url = url )
        => /\ source_credibility[SourceId(url)].current_sci = 25
           /\ cred.answer.escalate
           /\ cred.answer.new_grade = "REJECT: Source SCI below threshold"

\* the SCI after the outcomes reported by calls, in order, from sci
RECURSIVE SciAfter(_, _, _)
SciAfter(calls, sci, base) ==
    IF calls = <<>> THEN sci
    ELSE SciAfter(Tail(calls),
                  IF Head(calls).arg = "True" THEN Min(base, sci + 2)
                  ELSE Max(0, sci - 10),
                  base)

Failures(calls) == Len(SelectSeq(calls, LAMBDA e : e.arg = "False"))

\* url was not known at the start, every call made on it was an
\* update_sci_on_verification, the calls ran one after another and are over
OnlyVerified(url) ==
    /\ ~cred.concurrent
    /\ \A p \in Procs : cred.calls[p].pc = "idle"
    /\ CallsOn(url) # <<>>
    /\ \A i \in 1 .. Len(CallsOn(url)) :
            CallsOn(url)[i].op = "update_sci_on_verification"

\* C36: every call of update_sci_on_verification applies the reported
\* outcome, the first call for a source never seen before included: a failure
\* takes 10 from the SCI (from the tier's base for a new source), floored at
\* 0, and adds one to the failure count, a success adds 2 capped at the base,
\* and the citation count grows by one per call.
C36_EveryOutcomeApplied ==
    \A url \in cred.unseen :
        OnlyVerified(url) =>
            LET row == source_credibility[SourceId(url)]
                base == TIER_CREDIBILITY(classify_source_tier(url))
            IN /\ row.present
               /\ row.current_sci = SciAfter(CallsOn(url), base, base)
               /\ row.verification_failures = Failures(CallsOn(url))
               /\ row.citation_count = Len(CallsOn(url))


(***************************************************************************)
(* Engine properties                                                       *)
(***************************************************************************)
GradeRank(grade) ==
    CASE grade = "L1" -> 1 [] grade = "L2" -> 2 [] grade = "L3" -> 3

\* C21: escalation never lowers a grade: for every SCI and every current
\* grade in {L1, L2, L3}, should_escalate_risk either rejects or returns the
\* current grade or a higher one, L3 stays L3, and
\* escalate_grade_on_unavailable never returns a grade below its input
C21_EscalationNeverLowers ==
    /\ fn.name = "should_escalate_risk" =>
          \/ /\ fn.result = <<TRUE, "REJECT: Source SCI below threshold">>
             /\ fn.sci < SCI_REJECT
          \/ /\ fn.result[2] \in Grades
             /\ GradeRank(fn.result[2]) >= GradeRank(fn.current_grade)
             /\ fn.current_grade = "L3" => fn.result[2] = "L3"
             /\ fn.result[1] = (fn.result[2] # fn.current_grade)
    /\ fn.name = "escalate_grade_on_unavailable" =>
          /\ fn.result \in Grades
          /\ GradeRank(fn.result) >= GradeRank(fn.current_grade)
          /\ fn.current_grade = "L3" => fn.result = "L3"

\* a credible source left an L2 artifact at L2
C21_Witness ==
    /\ fn.name = "should_escalate_risk"
    /\ fn.current_grade = "L2"
    /\ fn.sci >= SCI_ESCALATE_L2
    /\ fn.result = <<FALSE, "L2">>


RECURSIVE ScoreProduct(_)
ScoreProduct(path) ==
    IF path = <<>> THEN 1 ELSE Head(path) * ScoreProduct(Tail(path))

\* the value num/den equals k/m
IsValue(result, k, m) ==
    /\ result.kind = "return"
    /\ result.num * m = k * result.den

\* C25: calculate_transitive_trust returns exactly 0 for every path with more
\* than MAX_HOPS (3) scores, and for a path within the limit returns the first
\* score multiplied, for each later hop, by that hop's score and the damping
\* factor 0.5 (so [0.9, 0.9] gives 0.405)
C25_TransitiveTrust ==
    fn.name = "calculate_transitive_trust" =>
        LET path == fn.trust_path
        IN /\ Len(path) > MAX_HOPS => IsValue(fn.result, 0, 1)
           /\ Len(path) \in 1 .. MAX_HOPS =>
                /\ fn.result.kind = "return"
                /\ fn.result.num * Pow(PathUnit, Len(path))
                                 * Pow(2, Len(path) - 1)
                      = fn.result.den * ScoreProduct(path)
           /\ path = << (9 * PathUnit) \div 10, (9 * PathUnit) \div 10 >> =>
                IsValue(fn.result, 405, 1000)


Between(x, a, b) == (a <= x /\ x <= b) \/ (b <= x /\ x <= a)

\* C26: temporal decay moves a score toward the baseline and never past it:
\* for every score and baseline in [0, 1] and every elapsed time the result
\* of calculate_temporal_decay lies between the old score and the baseline
\* inclusive, a score equal to the baseline is unchanged, and a last-update
\* time later than the current time leaves the score unchanged
C26_DecayNeverCrossesBaseline ==
    (fn.name = "calculate_temporal_decay" /\ InUnit(fn.current_score)) =>
        /\ fn.result.kind = "return"
        /\ fn.result.den = Unit
        /\ Between(fn.result.num, fn.current_score, fn.baseline)
        /\ fn.current_score = fn.baseline => fn.result.num = fn.current_score
        /\ fn.last_update_ts > fn.now => fn.result.num = fn.current_score

\* thirty days of inactivity would take a score 10 grid steps above the
\* baseline past it; the result is the baseline
C26_Witness ==
    /\ fn.name = "calculate_temporal_decay"
    /\ fn.current_score = DefaultBaseline + 10
    /\ fn.baseline = DefaultBaseline
    /\ fn.now - fn.last_update_ts = 30
    /\ fn.result = Returns(DefaultBaseline, Unit)


\* 100 times lambda * old + (1 - lambda) * outcome, lambda in hundredths
EwmaFormula(lambda, old, outcome) == lambda * old + (100 - lambda) * outcome

\* x is the grid value nearest to hundredfold / 100
NearestOnGrid(x, hundredfold) ==
    100 * x - 50 <= hundredfold /\ hundredfold < 100 * x + 50

\* C27: calculate_ewma_update(old, outcome, context) equals
\* lambda*old + (1-lambda)*outcome with lambda = 0.94 whenever the context
\* is HIGH_RISK and 0.97 whenever it is LOW_RISK; so a success (outcome 1)
\* never lowers the score, a failure (outcome 0) never raises it, and from
\* 0.5 a HIGH_RISK success gives 0.53
C27_EwmaUsesContextLambda ==
    (fn.name = "calculate_ewma_update" /\ InUnit(fn.current_score)) =>
        /\ fn.result.kind = "return"
        /\ fn.result.den = Unit
        /\ fn.context = "HIGH_RISK" =>
              NearestOnGrid(fn.result.num,
                            EwmaFormula(94, fn.current_score, fn.outcome_score))
        /\ fn.context = "LOW_RISK" =>
              NearestOnGrid(fn.result.num,
                            EwmaFormula(97, fn.current_score, fn.outcome_score))
        /\ fn.outcome_score = Unit => fn.result.num >= fn.current_score
        /\ fn.outcome_score = 0 => fn.result.num <= fn.current_score
        /\ ( /\ fn.context = "HIGH_RISK"
             /\ fn.current_score = Unit \div 2
             /\ fn.outcome_score = Unit )
           => fn.result.num = (53 * Unit) \div 100

\* a HIGH_RISK success from 0.5 has been computed: 0.53
C27_Witness ==
    /\ fn.name = "calculate_ewma_update"
    /\ fn.context = "HIGH_RISK"
    /\ fn.current_score = Unit \div 2
    /\ fn.outcome_score = Unit
    /\ fn.result = Returns((53 * Unit) \div 100, Unit)


\* C28: classify_risk_grade returns L3 when the path or the content matches
\* a high-sensitivity pattern; otherwise L2 for any non-empty content
\* (including content made only of whitespace) and L1 only for empty content
C28_ClassifyRiskGrade ==
    fn.name = "classify_risk_grade" =>
        fn.result =
            IF SearchL3File(fn.file_path) \/ SearchL3Content(fn.content)
            THEN "L3"
            ELSE IF fn.content # <<>> THEN "L2"
            ELSE "L1"


(***************************************************************************)
(* Sentinel pipeline properties                                            *)
(***************************************************************************)
\* no check can find a defect in the content
CleanContent(features) ==
    /\ ~features.secret
    /\ features.unsafe = {}
    /\ ~features.lint
    /\ ~features.div_zero
    /\ features.contracts # "contradictory"

\* C29: when an external verifier or tool used by audit is unavailable or
\* raises an error, the degradation by itself adds only advisory (WARN)
\* findings: if no check found an actual defect, every finding of the
\* returned result is advisory and the verdict is not FAIL
C29_DegradationIsAdvisory ==
    ( /\ sentinel.pc = "done"
      /\ sentinel.op = "audit"
      /\ CleanContent(sentinel.input.features) )
    => /\ \A i \in 1 .. Len(sentinel.all_findings) :
              StartsWithWarn(sentinel.all_findings[i])
       /\ sentinel.verdict # "FAIL"

\* C30: every audit call eventually returns a verdict even when an external
\* tool it invokes never responds
C30_AuditReturns ==
    (sentinel.pc # "idle" /\ sentinel.op = "audit") ~> (sentinel.pc = "done")

\* C34: an artifact whose only finding is a dangerous call marked for review
\* (the open( entry of the unsafe-function list) has that call listed in its
\* findings and does not receive the verdict FAIL.
C34_ReviewCallDoesNotFail ==
    ( /\ sentinel.pc = "done"
      /\ sentinel.op = "audit"
      /\ sentinel.input.features.unsafe = {"open("}
      /\ Len(sentinel.all_findings) = 1 )
    => /\ sentinel.all_findings[1][2] = "UNSAFE_FUNCTION:open("
       /\ sentinel.verdict # "FAIL"


(***************************************************************************)
(* Influence weight properties (SpecWeights)                               *)
(***************************************************************************)
\* the last call of update_influence_weights returned True and no tool has
\* written a weight since
AfterUpdate ==
    /\ fn.name = "update_influence_weights"
    /\ fn.result
    /\ fn.writes = Len(reputation_log)

WeightOf == [d \in DOMAIN agent_registry |-> agent_registry[d].influence_weight]

Anchors == {d \in ActiveAgents(agent_registry) :
                agent_registry[d].role \in AnchorRoles}

NonAnchors == ActiveAgents(agent_registry) \ Anchors

C24_WeightInUnitInterval ==
    \A d \in DOMAIN agent_registry :
        0 <= WeightOf[d] /\ WeightOf[d] <= WeightUnit


(***************************************************************************)
(* Trust Manager calls for an agent that is not registered (SpecTrust)     *)
(***************************************************************************)
\* the step in which a call for an agent outside the registry returns
ReturnsForUnknownAgent ==
    /\ txn_hist'.begun = txn_hist.begun + 1
    /\ txn_hist'.returned.call = txn_hist'.begun
    /\ txn_hist'.returned.agent_did \notin DOMAIN agent_registry

\* C31: update_trust_ewma, apply_micro_penalty, apply_temporal_decay and
\* apply_violation_penalty called for an agent that is not in the registry
\* return False and leave the agent registry, the trust-update history, the
\* quarantine tables and the ledger as they were.
C31_UnknownAgentChangesNothing ==
    [][ReturnsForUnknownAgent =>
            /\ txn_hist'.returned.value = FALSE
            /\ UNCHANGED <<agent_registry, trust_updates, tm_quarantine,
                           agent_quarantine, soa_ledger>>]_vars

\* apply_violation_penalty has returned False for an unknown agent after a
\* call for the registered agent had written its history row
C31_Witness ==
    /\ txn_hist.returned.kind = "violation"
    /\ txn_hist.returned.agent_did = UnknownDid
    /\ txn_hist.returned.call = 2
    /\ ~txn_hist.returned.value
    /\ Len(trust_updates) > 0
    /\ tm_quarantine = <<>>


(***************************************************************************)
(* Entry hash properties                                                   *)
(***************************************************************************)
\* the two payloads are the same mapping, whatever the order of their keys
SameMapping(payload, reordered) ==
    {payload[i] : i \in DOMAIN payload} = {reordered[i] : i \in DOMAIN reordered}

\* C32: two appends with the same timestamp, signer and prev_hash whose
\* payloads are the same key/value mapping written in different key orders
\* produce the same entry_hash.
C32_HashIgnoresKeyOrder ==
    (/\ fn.name \in {"log_event", "qdna.log_event"}
     /\ SameMapping(fn.payload, fn.reordered)) =>
        fn.entry_hash = fn.entry_hash_reordered

\* the stored chain with the payload of entry k changed
Tampered(k) == [soa_ledger EXCEPT ![k].payload = <<"tampered", @>>]

\* the hash a replay from genesis computes for entry i: over the stored
\* timestamp, signer and payload and the hash it computed for entry i - 1
RECURSIVE ReplayHash(_, _)
ReplayHash(ledger, i) ==
    IF i = 0 THEN GENESIS_HASH
    ELSE compute_entry_hash(ledger[i].timestamp, ledger[i].agent_did,
                            ledger[i].payload, ReplayHash(ledger, i - 1))

ReplayFailsAt(ledger, i) == ReplayHash(ledger, i) # ledger[i].entry_hash

\* C33: when the stored payload of one ledger entry k is changed, a replay
\* that recomputes the hashes over the stored sequence fails at entry k and
\* at every entry after k, and at no entry before k.
C33_ReplayFailsFromTamperedEntry ==
    \A k \in 1 .. Len(soa_ledger) :
        \A i \in 1 .. Len(soa_ledger) :
            ReplayFailsAt(Tampered(k), i) <=> i >= k


(***************************************************************************)
(* Demotion on a failed verification (SpecTrust)                           *)
(***************************************************************************)
\* the trust stages in ascending order
StageRank(stage) ==
    CASE stage = "CBT" -> 1
      [] stage = "KBT" -> 2
      [] stage = "IBT" -> 3

\* the history rows update_trust_ewma wrote for an outcome below 0.5
FailedOutcomeRows ==
    { i \in 1 .. Len(trust_updates) :
        /\ trust_updates[i].update_type = "EWMA_UPDATE"
        /\ 2 * trust_updates[i].context[2] < Unit }

\* C35: every update_trust_ewma call with an outcome below 0.5 on a
\* registered agent persists a score strictly lower than the score it found,
\* also when the agent is in probation; and an agent found in IBT or KBT is
\* at least one stage lower afterwards.
C35_FailureForcesDemotion ==
    \A i \in FailedOutcomeRows :
        /\ trust_updates[i].new_score < trust_updates[i].old_score
        /\ get_trust_stage(trust_updates[i].old_score) \in {"IBT", "KBT"} =>
              StageRank(get_trust_stage(trust_updates[i].new_score))
                  < StageRank(get_trust_stage(trust_updates[i].old_score))


(***************************************************************************)
(* The operating mode (SpecMode)                                           *)
(***************************************************************************)
ModeChanges ==
    {i \in 1 .. Len(soa_ledger) : soa_ledger[i].event_type = "MODE_CHANGE"}

\* the new_mode of the last MODE_CHANGE entry
LastSetMode ==
    LET last == CHOOSE i \in ModeChanges : \A j \in ModeChanges : j <= i
    IN  soa_ledger[last].payload[1][2]

\* a should_verify call answers while no set_operational_mode is in progress
\* and at least one has succeeded
VerifiesAfterModeChange ==
    /\ fn' # fn
    /\ fn'.name = "should_verify"
    /\ call[Server].pc = "idle"
    /\ ModeChanges # {}

\* C37: there is one global operating mode: after set_operational_mode(m) has
\* succeeded, the Mode Enforcer's get_current_mode and should_verify use mode
\* m until the next successful change; the stored mode is the mode of the
\* last MODE_CHANGE entry, and other steps leave it alone.
C37_OneGlobalMode ==
    [][ /\ VerifiesAfterModeChange =>
            /\ fn'.mode = LastSetMode
            /\ fn'.result = should_verify(LastSetMode, fn'.risk_grade, TRUE)[1]
                \/ fn'.result = should_verify(LastSetMode, fn'.risk_grade, FALSE)[1]
        /\ (call[Server].pc = "idle" /\ ModeChanges # {}) =>
                system_state[ServerDb] = LastSetMode ]_vars

\* a release_expired_quarantines step that completed at least one record
SweepReleased ==
    /\ Len(agent_quarantine') = Len(agent_quarantine)
    /\ \E i \in 1 .. Len(agent_quarantine) :
            /\ agent_quarantine[i].status = "ACTIVE"
            /\ agent_quarantine'[i].status = "COMPLETED"

\* C38: after release_expired_quarantines an agent's registry status is
\* ACTIVE only if the agent has no quarantine record that is still ACTIVE
\* with an end time in the future; an agent with one expired and one
\* unexpired quarantine stays QUARANTINED.
C38_ReleasedOnlyWhenNoneRemain ==
    [][ SweepReleased =>
            \A a \in DOMAIN agent_registry :
                agent_registry'[a].status = "ACTIVE"
                => ~is_agent_quarantined(agent_quarantine', a, clock') ]_vars

\* C39: an L3 approval-queue entry is decided at most once: once approve_l3
\* has set it to APPROVED or REJECTED, no later step changes its status.
C39_DecidedAtMostOnce ==
    [][ \A i \in 1 .. Len(l3_approval_queue) :
            l3_approval_queue[i].status \in {"APPROVED", "REJECTED"}
            => /\ i <= Len(l3_approval_queue')
               /\ l3_approval_queue'[i].status = l3_approval_queue[i].status ]_vars

\* this step is a register_source call on url
RegistersSource(url) ==
    /\ Len(cred'.log) = Len(cred.log) + 1
    /\ cred'.log[Len(cred'.log)].op = "register_source"
    /\ cred'.log[Len(cred'.log)].url = url

\* C40: registering a source that is already known does not change its
\* record: its SCI, failure count and citation count are what they were
\* before the call, also when failures have lowered the SCI.
C40_RegisterKeepsKnownSource ==
    [][ \A url \in Urls :
            ( /\ RegistersSource(url)
              /\ source_credibility[SourceId(url)].present )
            => LET old == source_credibility[SourceId(url)]
                   new == source_credibility'[SourceId(url)]
               IN  /\ new.current_sci = old.current_sci
                   /\ new.verification_failures = old.verification_failures
                   /\ new.citation_count = old.citation_count ]_vars

=============================================================================
